---- MODULE Spec2Model ----
(***************************************************************************)
(* Study tracker: the stopwatch hook (src/src/hooks/stopwatch.js), the     *)
(* session collection with its create / edit / delete handlers, the        *)
(* load-time normalizer (src/src/App.js, with the earlier revision of the  *)
(* normalizer in src/unnamed/part_001), and the aggregation: the range and *)
(* tag filters and the split of a session over calendar days.              *)
(*                                                                         *)
(* JavaScript values.  A number is an integer.  null, undefined and NaN    *)
(* are three integers far below every number of the model, so that a field *)
(* can hold "a number or null" and still be compared; arithmetic goes      *)
(* through ToNumber / Minus / Plus, which coerce as JavaScript does.  An   *)
(* object-or-null (a draft) is a sequence of length 0 or 1.                *)
(***************************************************************************)
EXTENDS Integers, Sequences, FiniteSets, TLC

VARIABLES
    now,            \* Date.now(): the wall clock, in model time units
    isRunning,      \* useStopwatch state
    startAt,
    elapsedOffset,
    tick,           \* useStopwatch: the display tick counter
    rendered,       \* currentElapsed as the last render computed it
    showConfirm,    \* StopwatchSection state
    sessions,       \* App state: sequence of session records
    editingId,
    editDraft,
    nextId,         \* the ids Math.random() hands out, in order
    stored,         \* what loadSessions() resolves to: sequence of raw records
    rev,            \* which revision of the normalizer runs: "app" | "legacy"
    loaded,         \* the load effect's .then has run
    filterRange,    \* App state: the range selected for the heatmap and the list
    selectedTags,   \* App state: the tags selected in the tags filter
    tz,             \* the time zone of the environment: local time - UTC
    filteredSessions, \* useMemo: the sessions the filters keep
    countsByDay,    \* useMemo: day key -> seconds
    db,             \* IndexedDB: the records of the object store "sessions"
    legacyEntry,    \* localStorage: the entry "study_sessions_v1", or none
    calls,          \* the calls to saveSessions that have not settled, oldest first
    loadPc,         \* where the call to loadSessions is
    sched,          \* how calls into db.js are scheduled: "atonce" | "steps"
    last,           \* history: the last operation, what it returned
    activeMs,       \* history: clock time that passed while isRunning, this run
    mono,           \* history: the clock never stepped back during this run
    runStart,       \* history: the clock when this run left idle, else NULL
    backs           \* history: number of backward clock steps so far

vars == <<now, isRunning, startAt, elapsedOffset, tick, rendered, showConfirm, sessions,
          editingId, editDraft, nextId, stored, rev, loaded, filterRange,
          selectedTags, tz, filteredSessions, countsByDay, db, legacyEntry,
          calls, loadPc, sched, last, activeMs, mono, runStart, backs>>

swVars   == <<isRunning, startAt, elapsedOffset>>
uiVars   == <<tick, rendered, filteredSessions, countsByDay>>
appVars  == <<showConfirm, sessions, editingId, editDraft, nextId>>
loadVars == <<stored, rev, loaded>>
viewVars == <<filterRange, selectedTags, tz>>
storeVars == <<db, calls>>
envVars  == <<legacyEntry, loadPc, sched>>

---------------------------------------------------------------------------
\* Bounds of the model.
MaxNow      == 4    \* the clock runs over 1..MaxNow
MaxStep     == 2    \* largest single clock step, forward or backward
MaxBack     == 1    \* backward clock steps in one behaviour
MaxSessions == 2    \* sessions the stopwatch adds in one behaviour
MaxTicks    == 1    \* display ticks in one behaviour
NowInit     == 1    \* clock value at construction
MinuteMs    == 2    \* clock units in one minute of a datetime-local input
\* the datetime-local inputs offer the minutes 0..MaxMinute, the last of
\* which is later than every clock value
MaxMinute   == (MaxNow \div MinuteMs) + 1

---------------------------------------------------------------------------
\* JavaScript values and coercions.
NULL  == -1000
UNDEF == -1001
NaN   == -1002

IsNum(v)    == v > NULL
\* !v for a number, null, undefined or NaN
Falsy(v)    == v \in {NULL, UNDEF, NaN, 0}
\* v === null || v === undefined
Nullish(v)  == v \in {NULL, UNDEF}
\* Number(v): Number(null) is 0, Number(undefined) is NaN
ToNumber(v) == IF v = NULL THEN 0 ELSE IF v = UNDEF THEN NaN ELSE v
\* a - b and a + b on coerced operands; NaN is contagious
Minus(a, b) ==
    IF ToNumber(a) = NaN \/ ToNumber(b) = NaN THEN NaN
    ELSE ToNumber(a) - ToNumber(b)
Plus(a, b) ==
    IF ToNumber(a) = NaN \/ ToNumber(b) = NaN THEN NaN
    ELSE ToNumber(a) + ToNumber(b)
\* a <= b and a > b: every comparison with NaN is false
Leq(a, b) == ToNumber(a) # NaN /\ ToNumber(b) # NaN /\ ToNumber(a) <= ToNumber(b)
Gt(a, b)  == ToNumber(a) # NaN /\ ToNumber(b) # NaN /\ ToNumber(a) > ToNumber(b)
\* a || b
OrElse(a, b) == IF Falsy(a) THEN b ELSE a

NoObj == <<>>
Some(x) == <<x>>

---------------------------------------------------------------------------
\* The stopwatch hook.

\* const currentElapsed = isRunning ? Date.now() - startAt + elapsedOffset : elapsedOffset
currentElapsed ==
    IF isRunning THEN Plus(Minus(now, startAt), elapsedOffset) ELSE elapsedOffset

start_paused_noop ==
    IF isRunning \/ elapsedOffset > 0
      THEN UNCHANGED swVars
      ELSE startAt' = now /\ isRunning' = TRUE /\ UNCHANGED elapsedOffset

start ==
    IF isRunning
      THEN UNCHANGED swVars
      ELSE startAt' = now /\ isRunning' = TRUE /\ UNCHANGED elapsedOffset

pause_keeps_startAt ==
    IF ~isRunning
      THEN UNCHANGED swVars
      ELSE /\ elapsedOffset' = Plus(elapsedOffset, Minus(now, startAt))
           /\ isRunning' = FALSE
           /\ UNCHANGED startAt

pause_drops_segment ==
    IF ~isRunning
      THEN UNCHANGED swVars
      ELSE /\ elapsedOffset' = elapsedOffset
           /\ startAt' = NULL
           /\ isRunning' = FALSE

resume_backdated ==
    IF isRunning
      THEN UNCHANGED swVars
      ELSE startAt' = Minus(now, elapsedOffset) /\ isRunning' = TRUE /\ UNCHANGED elapsedOffset

pause ==
    IF ~isRunning
      THEN UNCHANGED swVars
      ELSE /\ elapsedOffset' = Plus(elapsedOffset, Minus(now, startAt))
           /\ startAt' = NULL
           /\ isRunning' = FALSE

resume ==
    IF isRunning
      THEN UNCHANGED swVars
      ELSE startAt' = now /\ isRunning' = TRUE /\ UNCHANGED elapsedOffset

stopDuration_counts_ticks ==
    IF isRunning THEN Plus(tick, elapsedOffset) ELSE elapsedOffset

\* stop(): const duration = isRunning ? endTime - startAt + elapsedOffset : elapsedOffset
stopDuration ==
    IF isRunning THEN Plus(Minus(now, startAt), elapsedOffset) ELSE elapsedOffset

stopReset_keeps_offset ==
    isRunning' = FALSE /\ startAt' = NULL /\ UNCHANGED elapsedOffset

\* stop(): setIsRunning(false); setStartAt(null); setElapsedOffset(0)
stopReset ==
    isRunning' = FALSE /\ startAt' = NULL /\ elapsedOffset' = 0

stopResult_start_is_segment ==
    IF stopDuration <= 0
      THEN NoObj
      ELSE Some([durationMs |-> stopDuration,
                 startAt    |-> IF isRunning THEN startAt ELSE now - stopDuration,
                 endAt      |-> now])

stopResult_accepts_zero ==
    IF stopDuration < 0
      THEN NoObj
      ELSE Some([durationMs |-> stopDuration,
                 startAt    |-> now - stopDuration,
                 endAt      |-> now])

\* stop(): if (duration <= 0) return null; return {durationMs, startAt, endAt}
stopResult ==
    IF stopDuration <= 0
      THEN NoObj
      ELSE Some([durationMs |-> stopDuration,
                 startAt    |-> now - stopDuration,
                 endAt      |-> now])

---------------------------------------------------------------------------
\* The clock.  Date.now() is the wall clock: it advances, and an adjustment
\* of the system time can set it back.

\* The record of an operation: its name, what it returned, whether it took
\* effect, and the state it was called in.
Op(name, ret, ok) ==
    [op |-> name, ret |-> ret, ok |-> ok, at |-> now,
     isRunning |-> isRunning, startAt |-> startAt, elapsedOffset |-> elapsedOffset,
     editingId |-> editingId,
     active |-> activeMs, mono |-> mono, runStart |-> runStart]

Advance(d) ==
    /\ now + d <= MaxNow
    /\ now' = now + d
    /\ last' = Op("tick", NoObj, TRUE)
    /\ UNCHANGED <<swVars, uiVars, appVars, loadVars, envVars, viewVars, storeVars, backs>>

SetBack(d) ==
    /\ backs < MaxBack
    /\ now - d >= 1
    /\ now' = now - d
    /\ backs' = backs + 1
    /\ last' = Op("clockBack", NoObj, TRUE)
    /\ UNCHANGED <<swVars, uiVars, appVars, loadVars, envVars, viewVars, storeVars>>

Tick ==
    \E d \in 1..MaxStep : Advance(d) /\ UNCHANGED <<activeMs, mono, runStart>>

ClockBack ==
    \E d \in 1..MaxStep : SetBack(d) /\ UNCHANGED <<activeMs, mono, runStart>>

\* The same two steps, with the history of the run kept (SpecHook).
HookTick ==
    \E d \in 1..MaxStep :
        /\ Advance(d)
        /\ activeMs' = IF isRunning THEN activeMs + d ELSE activeMs
        /\ UNCHANGED <<mono, runStart>>

HookClockBack ==
    \E d \in 1..MaxStep :
        /\ SetBack(d)
        /\ mono' = FALSE
        /\ UNCHANGED <<activeMs, runStart>>

---------------------------------------------------------------------------
\* The aggregation: the range and tag filters and the day decomposition.

SecMs  == 4    \* clock units in one second (the 1000 of the source)
DaySec == 2    \* seconds in one day
MaxTz  == 1    \* largest time-zone offset, east or west, in clock units
DayMs  == SecMs * DaySec

TzOffsets == (0 - MaxTz)..MaxTz

\* The local calendar day a timestamp falls on, as a day number.
LocalDay(ts) == (ts + tz) \div DayMs

\* const d = new Date(cursor); d.setHours(24, 0, 0, 0); d.getTime()
NextMidnight(ts) == (LocalDay(ts) + 1) * DayMs - tz

\* startOfDayISO: d.setHours(0, 0, 0, 0) is the local midnight, and
\* d.toISOString().slice(0, 10) is the UTC date of that instant
startOfDayISO(ts) == (LocalDay(ts) * DayMs - tz) \div DayMs

MathRound_floor(num, den) == num \div den

\* Math.round(num / den) for den > 0: the nearest integer, halves upward
MathRound(num, den) == (2 * num + den) \div (2 * den)

Min_takes_second(a, b) == b

Min(a, b) == IF a <= b THEN a ELSE b

Ranges == {"week", "2weeks", "month", "3months", "6months", "year"}

\* getDateCutoff(range): the number of days the calendar arithmetic
\* (setDate, setMonth, setFullYear) takes off the current instant; for the
\* month and year ranges it depends on the date
RangeDays(range) ==
    CASE range = "week"    -> {7}
      [] range = "2weeks"  -> {14}
      [] range = "month"   -> 28..31
      [] range = "3months" -> 89..92
      [] range = "6months" -> 181..184
      [] OTHER             -> {365, 366}

DateKept_strict(sess, cutoff) ==
    LET v == ToNumber(OrElse(sess.endAt, sess.startAt))
    IN  v # NaN /\ v > cutoff

\* (s.endAt || s.startAt) >= cutoff.getTime()
DateKept(sess, cutoff) ==
    LET v == ToNumber(OrElse(sess.endAt, sess.startAt))
    IN  v # NaN /\ v >= cutoff

TagKept_every(sess, selected) ==
    \A k \in 1..Len(sess.tags) : sess.tags[k] \in selected

\* (s.tags || []).some(tag => selectedTags.includes(tag))
TagKept(sess, selected) ==
    \E k \in 1..Len(sess.tags) : sess.tags[k] \in selected

\* The body of the filteredSessions memo
FilterSessions(list, cutoff, selected) ==
    LET ByDate(sess) == DateKept(sess, cutoff)
        ByTag(sess)  == TagKept(sess, selected)
        dateFiltered == SelectSeq(list, ByDate)
    IN  IF selected = {} THEN dateFiltered ELSE SelectSeq(dateFiltered, ByTag)

\* countsByDay: const start = sess.startAt || (sess.endAt ? sess.endAt - sess.durationMs : null)
WalkStart(sess) ==
    OrElse(sess.startAt,
           IF ~Falsy(sess.endAt) THEN Minus(sess.endAt, sess.durationMs) ELSE NULL)

\* countsByDay: const end = sess.endAt || (sess.startAt ? sess.startAt + sess.durationMs : null)
WalkEnd(sess) ==
    OrElse(sess.endAt,
           IF ~Falsy(sess.startAt) THEN Plus(sess.startAt, sess.durationMs) ELSE NULL)

\* counts[key] = (counts[key] || 0) + seconds
AddSeconds(counts, key, seconds) ==
    [k \in (DOMAIN counts) \cup {key} |->
        IF k = key
          THEN (IF key \in DOMAIN counts THEN counts[key] ELSE 0) + seconds
          ELSE counts[k]]

\* countsByDay: the while loop
RECURSIVE Walk(_, _, _)
Walk(cursor, eMs, counts) ==
    IF ~(cursor < eMs) THEN counts
    ELSE LET segEnd  == Min(eMs, NextMidnight(cursor))
             seconds == MathRound(segEnd - cursor, SecMs)
             key     == startOfDayISO(cursor)
         IN  Walk(segEnd, eMs, AddSeconds(counts, key, seconds))

\* countsByDay: the iterations of the while loop for one session, each with
\* the cursor it began at and the segEnd the cursor was advanced to; at most
\* limit iterations are followed.
RECURSIVE WalkSegments(_, _, _)
WalkSegments(cursor, eMs, limit) ==
    IF ~(cursor < eMs) \/ limit = 0 THEN <<>>
    ELSE LET segEnd == Min(eMs, NextMidnight(cursor))
         IN  <<[cursor |-> cursor, segEnd |-> segEnd]>>
                 \o WalkSegments(segEnd, eMs, limit - 1)

\* countsByDay: the callback of filteredSessions.forEach
CountSession(sess, counts) ==
    LET sMs == ToNumber(WalkStart(sess))
        eMs == ToNumber(WalkEnd(sess))
    IN  IF Falsy(sMs) \/ Falsy(eMs) \/ Leq(eMs, sMs)
          THEN counts
          ELSE Walk(sMs, eMs, counts)

NoCounts == [k \in {} |-> 0]

\* The body of the countsByDay memo
RECURSIVE CountsOf(_)
CountsOf(list) ==
    IF list = <<>> THEN NoCounts
    ELSE CountSession(list[Len(list)], CountsOf(SubSeq(list, 1, Len(list) - 1)))

\* allTags: the tags of the collection, one button each
allTags == UNION { { sessions[i].tags[k] : k \in 1..Len(sessions[i].tags) } :
                   i \in 1..Len(sessions) }

\* stats: filteredSessions.reduce((sum, s) => sum + (s.durationMs || 0), 0)
RECURSIVE TotalTime(_)
TotalTime(list) ==
    IF list = <<>> THEN 0
    ELSE Plus(TotalTime(SubSeq(list, 1, Len(list) - 1)),
              OrElse(list[Len(list)].durationMs, 0))

\* stats: Object.keys(countsByDay).length || 1
studyDays ==
    LET n == Cardinality(DOMAIN countsByDay)
    IN  IF n = 0 THEN 1 ELSE n

\* The stats memo, its total and avg as the whole seconds secondsToHMS
\* splits into hours, minutes and seconds (Math.floor)
stats ==
    LET totalTime == TotalTime(filteredSessions)
    IN  [total       |-> IF totalTime = NaN THEN NaN ELSE totalTime \div SecMs,
         avg         |-> IF totalTime = NaN THEN NaN
                         ELSE totalTime \div (SecMs * studyDays),
         daysStudied |-> studyDays]

---------------------------------------------------------------------------
\* The store: the object store of db.js and the calls into it.

\* What saveSessions puts into the store for a session of the collection
\* (a session the stopwatch made has no date; reading it gives undefined).
AsStored(sess) ==
    [id         |-> sess.id,
     startAt    |-> sess.startAt,
     endAt      |-> sess.endAt,
     durationMs |-> sess.durationMs,
     date       |-> IF "date" \in DOMAIN sess THEN sess.date ELSE UNDEF,
     topic      |-> sess.topic,
     notes      |-> sess.notes,
     tags       |-> IF rev = "app"
                      THEN [isArray |-> TRUE, items |-> sess.tags]
                      ELSE sess.tags]

\* The records saveSessions(list) adds, in the order of its calls to add.
StoredSeq(list) == [i \in 1..Len(list) |-> AsStored(list[i])]

MaxCalls == 2    \* calls to saveSessions by the save effect that have not settled

\* A call to saveSessions(records) from the save effect or from the
\* migration: awaiting getDB ("open"), or in its transaction after clear()
\* with n records added ("add"); before is the store as the transaction
\* found it.
SaveCall(records, by) ==
    [records |-> records, by |-> by, pc |-> "open", n |-> 0, before |-> <<>>]

\* Every call into db.js settles before the next handler runs: the call to
\* loadSessions of the mount has resolved to stored, and the mount's
\* saveSessions([]) (the earlier revision makes none) has replaced what the
\* store held.  There is no legacy entry.
StoreAtOnce ==
    /\ sched = "atonce"
    /\ loadPc = "resolved"
    /\ legacyEntry = NoObj
    /\ calls = <<>>
    /\ db = IF rev = "app" THEN <<>> ELSE stored

SaveEffect_skips_empty ==
    IF sessions' # sessions /\ Len(sessions') > 0
      THEN IF sched = "steps"
             THEN /\ Len(calls) < MaxCalls
                  /\ calls' = Append(calls, SaveCall(StoredSeq(sessions'), "effect"))
                  /\ UNCHANGED db
             ELSE /\ db' = StoredSeq(sessions')
                  /\ UNCHANGED calls
      ELSE UNCHANGED <<db, calls>>

\* useEffect(() => { saveSessions(sessions).catch(...) }, [sessions]); the
\* earlier revision saves only if (sessions.length > 0).  A handler that
\* gives the collection the content it had causes no save here.
SaveEffect ==
    IF sessions' # sessions /\ (rev = "app" \/ Len(sessions') > 0)
      THEN IF sched = "steps"
             THEN /\ Len(calls) < MaxCalls
                  /\ calls' = Append(calls, SaveCall(StoredSeq(sessions'), "effect"))
                  /\ UNCHANGED db
             ELSE /\ db' = StoredSeq(sessions')
                  /\ UNCHANGED calls
      ELSE UNCHANGED <<db, calls>>

---------------------------------------------------------------------------
\* Rendering.  A handler that changed component state is followed by a
\* render, which computes currentElapsed from the new state and the clock; a
\* handler that changed nothing causes no render.  The clock moving causes
\* none.  The render of App recomputes the two memos when the collection or
\* a filter changed, with the clock of that render, and its effects run.
Render ==
    /\ SaveEffect
    /\ rendered' = IF <<swVars, tick, appVars>>' # <<swVars, tick, appVars>>
                     THEN currentElapsed'
                     ELSE rendered
    /\ IF /\ rev = "app"
          /\ <<sessions, filterRange, selectedTags>>' # <<sessions, filterRange, selectedTags>>
         THEN /\ filteredSessions' \in
                     { FilterSessions(sessions', now' - n * DayMs, selectedTags') :
                           n \in RangeDays(filterRange') }
              /\ countsByDay' = CountsOf(filteredSessions')
         ELSE UNCHANGED <<filteredSessions, countsByDay>>

\* useEffect on isRunning: setInterval(() => setTick((t) => t + 1), 500)
DisplayTick ==
    /\ isRunning
    /\ tick < MaxTicks
    /\ tick' = tick + 1
    /\ last' = Op("displayTick", NoObj, TRUE)
    /\ UNCHANGED <<now, swVars, appVars, loadVars, envVars, viewVars, activeMs, mono, runStart, backs>>
    /\ Render

\* History of a run: it begins when a command takes the stopwatch out of
\* idle and ends with stop().
RunBegins == ~isRunning /\ runStart = NULL

TrackRun ==
    IF RunBegins
      THEN runStart' = now /\ activeMs' = 0 /\ mono' = TRUE
      ELSE UNCHANGED <<runStart, activeMs, mono>>

---------------------------------------------------------------------------
\* The hook on its own: its four exported commands, callable in any state.

HookStart ==
    /\ start
    /\ TrackRun
    /\ last' = Op("start", NoObj, TRUE)
    /\ UNCHANGED <<now, tick, appVars, loadVars, envVars, viewVars, backs>>
    /\ Render

HookPause ==
    /\ pause
    /\ last' = Op("pause", NoObj, TRUE)
    /\ UNCHANGED <<now, tick, appVars, loadVars, envVars, viewVars, activeMs, mono, runStart, backs>>
    /\ Render

HookResume ==
    /\ resume
    /\ TrackRun
    /\ last' = Op("resume", NoObj, TRUE)
    /\ UNCHANGED <<now, tick, appVars, loadVars, envVars, viewVars, backs>>
    /\ Render

HookStop ==
    /\ stopReset
    /\ last' = Op("stop", stopResult, stopResult # NoObj)
    /\ runStart' = NULL
    /\ UNCHANGED <<now, tick, appVars, loadVars, envVars, viewVars, activeMs, mono, backs>>
    /\ Render

\* The state after construction, with the clock at t.
InitAt(t) ==
    /\ now = t
    /\ isRunning = FALSE
    /\ startAt = NULL
    /\ elapsedOffset = 0
    /\ tick = 0
    /\ rendered = 0
    /\ showConfirm = FALSE
    /\ sessions = <<>>
    /\ editingId = NULL
    /\ editDraft = NoObj
    /\ nextId = 1
    /\ filterRange = "year"
    /\ selectedTags = {}
    /\ filteredSessions = <<>>
    /\ countsByDay = NoCounts
    /\ activeMs = 0
    /\ mono = TRUE
    /\ runStart = NULL
    /\ backs = 0
    /\ last = Op("init", NoObj, TRUE)

InitCommon ==
    /\ InitAt(NowInit)
    /\ tz = 0

InitHook ==
    /\ InitCommon
    /\ stored = <<>>
    /\ rev = "app"
    /\ loaded = FALSE
    /\ StoreAtOnce

NextHook ==
    \/ HookTick \/ HookClockBack \/ DisplayTick
    \/ HookStart \/ HookPause \/ HookResume \/ HookStop

SpecHook == InitHook /\ [][NextHook]_vars

---------------------------------------------------------------------------
\* The application: StopwatchSection's controls and App's session handlers.

NoTopic == "(no topic)"

\* Math.random().toString(36).slice(2): a fresh id each time
FreshId == nextId

\* The text of the tags input, as the pieces between its commas.
\* (session.tags || []).join(", "): the first tag, then each tag after ", "
JoinTags(tags) ==
    IF tags = <<>> THEN <<"">>
    ELSE [i \in 1..Len(tags) |-> IF i = 1 THEN tags[i] ELSE " " \o tags[i]]

\* t.trim()
Trim(piece) ==
    CASE piece = " "     -> ""
      [] piece = " math" -> "math"
      [] piece = "math " -> "math"
      [] piece = " hist" -> "hist"
      [] piece = " review" -> "review"
      [] OTHER           -> piece

\* .split(",").map(t => t.trim()).filter(Boolean)
ParseTags(pieces) ==
    LET trimmed == [i \in 1..Len(pieces) |-> Trim(pieces[i])]
        NonEmpty(t) == t # ""
    IN  SelectSeq(trimmed, NonEmpty)

\* What the user can type into the tags input.
TagInputs == { <<"">>, <<"math">>, <<"math ", " ">>, <<"math", " hist">> }

\* What the user can type into the topic input.
TopicInputs == { "", "algebra" }

\* The value of a datetime-local input: empty, or a local minute.
EmptyStr == -1000
DatetimeInputs == {EmptyStr} \cup (0..MaxMinute)

\* fromLocalDatetimeString(str): null for the empty string, else the
\* timestamp of the minute
fromLocalDatetimeString(str) ==
    IF str = EmptyStr THEN NULL ELSE str * MinuteMs

\* handleSessionComplete: setSessions((prev) => [newSession, ...prev])
handleSessionComplete(newSession) ==
    sessions' = <<newSession>> \o sessions

\* The Start button: shown when !isRunning && currentElapsed === 0
ClickStart ==
    /\ ~showConfirm
    /\ ~isRunning /\ rendered = 0
    /\ start
    /\ last' = Op("start", NoObj, TRUE)
    /\ UNCHANGED <<now, tick, appVars, loadVars, envVars, viewVars, activeMs, mono, runStart, backs>>
    /\ Render

\* The Pause button: shown when isRunning
ClickPause ==
    /\ ~showConfirm
    /\ isRunning
    /\ pause
    /\ last' = Op("pause", NoObj, TRUE)
    /\ UNCHANGED <<now, tick, appVars, loadVars, envVars, viewVars, activeMs, mono, runStart, backs>>
    /\ Render

\* The Resume button: shown when !isRunning && currentElapsed > 0
ClickResume ==
    /\ ~showConfirm
    /\ ~isRunning /\ rendered > 0
    /\ resume
    /\ last' = Op("resume", NoObj, TRUE)
    /\ UNCHANGED <<now, tick, appVars, loadVars, envVars, viewVars, activeMs, mono, runStart, backs>>
    /\ Render

\* The Save button (shown when currentElapsed > 0): handleStopAndSave
handleStopAndSave ==
    /\ ~showConfirm
    /\ rendered > 0
    /\ showConfirm' = IF rendered = 0 THEN showConfirm ELSE TRUE
    /\ last' = Op("handleStopAndSave", NoObj, rendered # 0)
    /\ UNCHANGED <<now, swVars, tick, sessions, editingId, editDraft, nextId,
                   loadVars, envVars, viewVars, activeMs, mono, runStart, backs>>
    /\ Render

\* The new session confirmSave hands to onSessionComplete
NewSession(draft) ==
    [id |-> FreshId, startAt |-> draft.startAt, endAt |-> draft.endAt,
     durationMs |-> draft.durationMs, topic |-> NoTopic, notes |-> "",
     tags |-> <<>>]

\* The YES button of the confirmation: confirmSave
confirmSave ==
    /\ showConfirm
    /\ stopResult # NoObj => nextId <= MaxSessions
    /\ stopReset
    /\ IF stopResult # NoObj
         THEN /\ handleSessionComplete(NewSession(stopResult[1]))
              /\ nextId' = nextId + 1
         ELSE UNCHANGED <<sessions, nextId>>
    /\ showConfirm' = FALSE
    /\ last' = Op("confirmSave", stopResult, stopResult # NoObj)
    /\ UNCHANGED <<now, tick, editingId, editDraft, loadVars, envVars, viewVars, activeMs, mono, runStart, backs>>
    /\ Render

\* The NO button of the confirmation: setShowConfirm(false)
ConfirmNo ==
    /\ showConfirm
    /\ showConfirm' = FALSE
    /\ last' = Op("confirmNo", NoObj, TRUE)
    /\ UNCHANGED <<now, swVars, tick, sessions, editingId, editDraft, nextId,
                   loadVars, envVars, viewVars, activeMs, mono, runStart, backs>>
    /\ Render

\* A session of the list is shown in edit mode: editingId === s.id && editDraft
InEditMode(sess) == editingId = sess.id /\ editDraft # NoObj

\* The Edit button of a session in view mode: openEditor(session)
openEditor ==
    \E i \in 1..Len(sessions) :
        /\ ~InEditMode(sessions[i])
        /\ editingId' = sessions[i].id
        /\ editDraft' = Some([id         |-> sessions[i].id,
                              startAt    |-> sessions[i].startAt,
                              endAt      |-> sessions[i].endAt,
                              durationMs |-> sessions[i].durationMs,
                              topic      |-> sessions[i].topic,
                              notes      |-> sessions[i].notes,
                              tags       |-> sessions[i].tags,
                              tagsInput  |-> JoinTags(sessions[i].tags)])
        /\ last' = Op("openEditor", NoObj, TRUE)
        /\ UNCHANGED <<now, swVars, tick, showConfirm, sessions, nextId, loadVars, envVars, viewVars,
                       activeMs, mono, runStart, backs>>
        /\ Render

\* The edit form is on screen: some listed session is in edit mode.
EditFormShown == \E i \in 1..Len(sessions) : InEditMode(sessions[i])

\* onChange of the edit form's inputs: setEditDraft({...editDraft, field: value})
SetDraft(field, value, name) ==
    /\ EditFormShown
    /\ editDraft' = Some([editDraft[1] EXCEPT ![field] = value])
    /\ last' = Op(name, NoObj, TRUE)
    /\ UNCHANGED <<now, swVars, tick, showConfirm, sessions, editingId, nextId,
                   loadVars, envVars, viewVars, activeMs, mono, runStart, backs>>
    /\ Render

SetDraftStart ==
    \E str \in DatetimeInputs :
        SetDraft("startAt", fromLocalDatetimeString(str), "setDraftStart")

SetDraftEnd ==
    \E str \in DatetimeInputs :
        SetDraft("endAt", fromLocalDatetimeString(str), "setDraftEnd")

SetDraftTopic ==
    \E str \in TopicInputs : SetDraft("topic", str, "setDraftTopic")

SetDraftTags ==
    \E pieces \in TagInputs : SetDraft("tagsInput", pieces, "setDraftTags")

\* The Cancel button of the edit form
CancelEdit ==
    /\ EditFormShown
    /\ editingId' = NULL
    /\ editDraft' = NoObj
    /\ last' = Op("cancelEdit", NoObj, TRUE)
    /\ UNCHANGED <<now, swVars, tick, showConfirm, sessions, nextId, loadVars, envVars, viewVars,
                   activeMs, mono, runStart, backs>>
    /\ Render

EditRejected_no_future_check(draft) ==
    LET sa == ToNumber(draft.startAt)
        ea == ToNumber(draft.endAt)
    IN  \/ sa = NaN \/ ea = NaN
        \/ Leq(ea, sa)

\* saveEdit: the checks that reject a draft
EditRejected(draft) ==
    LET sa == ToNumber(draft.startAt)
        ea == ToNumber(draft.endAt)
    IN  \/ sa = NaN \/ ea = NaN
        \/ Leq(ea, sa)
        \/ Gt(ea, now)

Updated_without_id(draft) ==
    [id         |-> NULL,
     startAt    |-> draft.startAt,
     endAt      |-> draft.endAt,
     durationMs |-> Minus(ToNumber(draft.endAt), ToNumber(draft.startAt)),
     topic      |-> draft.topic,
     notes      |-> draft.notes,
     tags       |-> ParseTags(draft.tagsInput)]

Updated_keeps_duration(draft) ==
    [id         |-> draft.id,
     startAt    |-> draft.startAt,
     endAt      |-> draft.endAt,
     durationMs |-> draft.durationMs,
     topic      |-> draft.topic,
     notes      |-> draft.notes,
     tags       |-> ParseTags(draft.tagsInput)]

\* saveEdit: const updated = {...editDraft, durationMs: ea - sa, tags: ...};
\* delete updated.tagsInput
Updated(draft) ==
    [id         |-> draft.id,
     startAt    |-> draft.startAt,
     endAt      |-> draft.endAt,
     durationMs |-> Minus(ToNumber(draft.endAt), ToNumber(draft.startAt)),
     topic      |-> draft.topic,
     notes      |-> draft.notes,
     tags       |-> ParseTags(draft.tagsInput)]

\* The Save button of the edit form: saveEdit
saveEdit ==
    /\ EditFormShown
    /\ IF editDraft = NoObj
         THEN /\ UNCHANGED <<sessions, editingId, editDraft>>
              /\ last' = Op("saveEdit", NoObj, FALSE)
         ELSE IF EditRejected(editDraft[1])
           THEN /\ UNCHANGED <<sessions, editingId, editDraft>>
                /\ last' = Op("saveEdit", NoObj, FALSE)
           ELSE /\ sessions' = [i \in 1..Len(sessions) |->
                                   IF sessions[i].id = editingId
                                     THEN Updated(editDraft[1])
                                     ELSE sessions[i]]
                /\ editingId' = NULL
                /\ editDraft' = NoObj
                /\ last' = Op("saveEdit", NoObj, TRUE)
    /\ UNCHANGED <<now, swVars, tick, showConfirm, nextId, loadVars, envVars, viewVars,
                   activeMs, mono, runStart, backs>>
    /\ Render

\* The Delete button of a session in view mode: deleteSession(id); the user
\* answers window.confirm with OK or with Cancel
deleteSession ==
    \E i \in 1..Len(sessions), confirmed \in BOOLEAN :
        /\ ~InEditMode(sessions[i])
        /\ LET KeepIt(sess) == sess.id # sessions[i].id
           IN  sessions' = IF confirmed THEN SelectSeq(sessions, KeepIt) ELSE sessions
        /\ last' = Op("deleteSession", NoObj, confirmed)
        /\ UNCHANGED <<now, swVars, tick, showConfirm, editingId, editDraft, nextId,
                       loadVars, envVars, viewVars, activeMs, mono, runStart, backs>>
        /\ Render

\* The stopwatch section with the session list it feeds: every control of
\* StopwatchSection, and App's create.  Deleting from the list is part of
\* SpecEdit.
Init ==
    /\ InitCommon
    /\ stored = <<>>
    /\ rev = "app"
    /\ loaded = FALSE
    /\ StoreAtOnce

Next ==
    \/ Tick \/ ClockBack \/ DisplayTick
    \/ ClickStart \/ ClickPause \/ ClickResume
    \/ handleStopAndSave \/ confirmSave \/ ConfirmNo

Spec == Init /\ [][Next]_vars

\* The session list and its edit form.  The sessions come from the
\* stopwatch: StopwatchRun is a whole run of it in one step (Start, Pause and
\* Resume, Save), taking t units of clock time of which the stopwatch ran
\* for d; it leaves the confirmation open with d on the paused stopwatch,
\* and confirmSave then stops it and adds the session.  Clock time passes
\* only in these runs.
StopwatchRun ==
    \E t \in 1..MaxStep :
        \E d \in 1..t :
            /\ ~showConfirm
            /\ ~isRunning /\ elapsedOffset = 0
            /\ now + t <= MaxNow
            /\ now' = now + t
            /\ elapsedOffset' = d
            /\ showConfirm' = TRUE
            /\ last' = Op("stopwatchRun", NoObj, TRUE)
            /\ UNCHANGED <<isRunning, startAt, tick, sessions, editingId, editDraft,
                           nextId, loadVars, envVars, viewVars, activeMs, mono, runStart, backs>>
            /\ Render

NextEdit ==
    \/ StopwatchRun \/ confirmSave
    \/ openEditor \/ SetDraftStart \/ SetDraftEnd
    \/ CancelEdit \/ saveEdit \/ deleteSession

SpecEdit == Init /\ [][NextEdit]_vars

\* The stopwatch panel with the history of the run kept: the hook's
\* commands, the Save button and the YES button.  confirmSave calls stop(),
\* which ends the run.
ConfirmSaveRun ==
    /\ showConfirm
    /\ stopResult # NoObj => nextId <= MaxSessions
    /\ stopReset
    /\ IF stopResult # NoObj
         THEN /\ handleSessionComplete(NewSession(stopResult[1]))
              /\ nextId' = nextId + 1
         ELSE UNCHANGED <<sessions, nextId>>
    /\ showConfirm' = FALSE
    /\ last' = Op("confirmSave", stopResult, stopResult # NoObj)
    /\ runStart' = NULL
    /\ UNCHANGED <<now, tick, editingId, editDraft, loadVars, envVars, viewVars, activeMs, mono, backs>>
    /\ Render

NextRun ==
    \/ HookTick \/ HookClockBack
    \/ HookStart \/ HookPause \/ HookResume
    \/ handleStopAndSave \/ ConfirmSaveRun

SpecRun == Init /\ [][NextRun]_vars

\* The same list and form, with the topic and tags inputs in place of the
\* two datetime inputs.
NextEditText ==
    \/ StopwatchRun \/ confirmSave
    \/ openEditor \/ SetDraftTopic \/ SetDraftTags
    \/ CancelEdit \/ saveEdit \/ deleteSession

SpecEditText == Init /\ [][NextEditText]_vars

---------------------------------------------------------------------------
\* The load effect and its normalizer.

MaxStored == 1    \* records in the stored batch

\* An absent or undefined string field.
AbsentStr == "undefined"
FalsyStr(v) == v \in {AbsentStr, ""}

\* The tags field of a stored record: absent, or an array.
AbsentTags == [isArray |-> FALSE, items |-> <<>>]

\* The values a stored record may hold in startAt, endAt, durationMs and
\* date: absent, 0, or a timestamp / duration.
RawTimes == {UNDEF, 0, 1, 3}

\* Stored records that differ in their time fields, the rest absent.
TimeRecords ==
    [id : {UNDEF}, startAt : RawTimes, endAt : RawTimes, durationMs : RawTimes,
     date : RawTimes, topic : {AbsentStr}, notes : {AbsentStr}, tags : {AbsentTags}]

\* The id of a record that was stored with one.
StoredId == 9

\* Stored records that differ in id, topic, notes and tags, with the time
\* fields of a session the stopwatch saved.
TextRecords ==
    [id : {UNDEF, StoredId}, startAt : {1}, endAt : {3}, durationMs : {2},
     date : {UNDEF}, topic : {AbsentStr, "", "algebra"}, notes : {AbsentStr, "n"},
     tags : {AbsentTags,
             [isArray |-> TRUE, items |-> <<>>],
             [isArray |-> TRUE, items |-> <<"math", "hist">>]}]

RawRecords == TimeRecords \cup TextRecords

\* The stored batches: the first record is any raw record, the records
\* after it differ in the text fields.
StoredBatches ==
    {<<>>} \cup { <<r>> \o rest : r \in RawRecords,
                                  rest \in UNION { [1..n -> TextRecords] : n \in 0..(MaxStored - 1) } }

\* new Date(x).getTime() for a number x
DateGetTime(x) == ToNumber(x)

\* Math.max(0, x)
Max0(x) == IF x = NaN THEN NaN ELSE IF x > 0 THEN x ELSE 0

NormalizeApp_fresh_id(raw, fresh) ==
    [id         |-> fresh,
     endAt      |-> OrElse(raw.endAt,
                           IF ~Falsy(raw.date) THEN DateGetTime(raw.date) ELSE now),
     startAt    |-> IF Nullish(raw.startAt)
                      THEN IF ~Falsy(raw.endAt)
                             THEN Minus(raw.endAt, OrElse(raw.durationMs, 0))
                             ELSE now
                      ELSE raw.startAt,
     durationMs |-> OrElse(raw.durationMs, 0),
     topic      |-> IF FalsyStr(raw.topic) THEN NoTopic ELSE raw.topic,
     notes      |-> IF FalsyStr(raw.notes) THEN "" ELSE raw.notes,
     tags       |-> IF raw.tags.isArray THEN raw.tags.items ELSE <<>>,
     date       |-> raw.date]

\* App.js: the object literal of stored.map
NormalizeApp(raw, fresh) ==
    [id         |-> OrElse(raw.id, fresh),
     endAt      |-> OrElse(raw.endAt,
                           IF ~Falsy(raw.date) THEN DateGetTime(raw.date) ELSE now),
     startAt    |-> IF Nullish(raw.startAt)
                      THEN IF ~Falsy(raw.endAt)
                             THEN Minus(raw.endAt, OrElse(raw.durationMs, 0))
                             ELSE now
                      ELSE raw.startAt,
     durationMs |-> OrElse(raw.durationMs, 0),
     topic      |-> IF FalsyStr(raw.topic) THEN NoTopic ELSE raw.topic,
     notes      |-> IF FalsyStr(raw.notes) THEN "" ELSE raw.notes,
     tags       |-> IF raw.tags.isArray THEN raw.tags.items ELSE <<>>,
     date       |-> raw.date]

\* The earlier revision: the statements of its stored.map callback, in order
NormalizeLegacy(raw, fresh) ==
    LET endAt1 ==
            IF Falsy(raw.endAt) /\ ~Falsy(raw.date)
              THEN IF ToNumber(raw.date) # NaN
                     THEN ToNumber(raw.date)
                     ELSE DateGetTime(raw.date)
              ELSE raw.endAt
        startAt1 ==
            IF Falsy(raw.startAt)
              THEN IF ~Falsy(raw.durationMs)
                     THEN Minus(OrElse(endAt1, now), raw.durationMs)
                     ELSE OrElse(endAt1, now)
              ELSE raw.startAt
        durationMs1 ==
            OrElse(ToNumber(raw.durationMs),
                   Max0(Minus(OrElse(endAt1, now), startAt1)))
    IN  [id         |-> raw.id,
         endAt      |-> endAt1,
         startAt    |-> startAt1,
         durationMs |-> durationMs1,
         topic      |-> IF FalsyStr(raw.topic) THEN NoTopic ELSE raw.topic,
         notes      |-> IF FalsyStr(raw.notes) THEN "" ELSE raw.notes,
         tags       |-> raw.tags,
         date       |-> raw.date]

Normalize(raw, fresh) ==
    IF rev = "app" THEN NormalizeApp(raw, fresh) ELSE NormalizeLegacy(raw, fresh)

SortKey_ascending(sess) == 0 - OrElse(sess.endAt, 0)

\* normalized.sort((a, b) => (b.endAt || 0) - (a.endAt || 0)): a stable sort
SortKey(sess) == OrElse(sess.endAt, 0)

RECURSIVE InsertDesc(_, _)
InsertDesc(sorted, sess) ==
    IF sorted = <<>> THEN <<sess>>
    ELSE IF SortKey(Head(sorted)) >= SortKey(sess)
           THEN <<Head(sorted)>> \o InsertDesc(Tail(sorted), sess)
           ELSE <<sess>> \o sorted

RECURSIVE SortDesc(_)
SortDesc(seq) ==
    IF seq = <<>> THEN <<>>
    ELSE InsertDesc(SortDesc(SubSeq(seq, 1, Len(seq) - 1)), seq[Len(seq)])

\* loadSessions().then((stored) => { if (stored && stored.length > 0) ... })
LoadSettle ==
    /\ ~loaded
    /\ loadPc = "resolved"
    /\ loaded' = TRUE
    /\ IF Len(stored) > 0
         THEN /\ sessions' = SortDesc([i \in 1..Len(stored) |->
                                          Normalize(stored[i], nextId + i - 1)])
              /\ nextId' = IF \E i \in 1..Len(stored) : rev = "app" /\ Falsy(stored[i].id)
                             THEN nextId + Len(stored)
                             ELSE nextId
         ELSE UNCHANGED <<sessions, nextId>>
    /\ last' = Op("load", NoObj, Len(stored) > 0)
    /\ UNCHANGED <<now, swVars, tick, showConfirm, editingId, editDraft, stored, rev,
                   envVars, viewVars, activeMs, mono, runStart, backs>>
    /\ Render

\* The orders in which getAll can return n records: it returns them by key,
\* and the keys are the random ids.
KeyOrders(n) == { f \in [1..n -> 1..n] : \A a, b \in 1..n : f[a] = f[b] => a = b }

\* The app is closed and opened again: the store holds what the save effect
\* wrote, the collection as it is, and the load effect runs on it.
Reopen ==
    \E f \in KeyOrders(Len(sessions)) :
        /\ loaded
        /\ Len(sessions) > 0
        /\ stored' = [i \in 1..Len(sessions) |-> AsStored(sessions[f[i]])]
        /\ sessions' = SortDesc([i \in 1..Len(sessions) |->
                                    Normalize(AsStored(sessions[f[i]]), nextId + i - 1)])
        /\ nextId' = nextId + Cardinality({i \in 1..Len(sessions) :
                                              rev = "app" /\ Falsy(sessions[i].id)})
        /\ last' = Op("reopen", NoObj, TRUE)
        /\ UNCHANGED <<now, swVars, tick, showConfirm, editingId, editDraft, rev, loaded,
                       envVars, viewVars, activeMs, mono, runStart, backs>>
        /\ Render

\* The current revision (App.js).
InitLoad ==
    /\ InitCommon
    /\ stored \in StoredBatches
    /\ rev = "app"
    /\ loaded = FALSE
    /\ StoreAtOnce

NextLoad == Tick \/ LoadSettle \/ Reopen

SpecLoad == InitLoad /\ [][NextLoad]_vars

\* The earlier revision of the load effect.
InitLoadLegacy ==
    /\ InitCommon
    /\ stored \in StoredBatches
    /\ rev = "legacy"
    /\ loaded = FALSE
    /\ StoreAtOnce

SpecLoadLegacy == InitLoadLegacy /\ [][NextLoad]_vars

\* The load of a batch of several records that differ in where their endAt
\* comes from.
MaxBatch == 3

SortRecords ==
    [id : {UNDEF}, startAt : {UNDEF}, endAt : {UNDEF, 1, 3}, durationMs : {UNDEF},
     date : {UNDEF, 2}, topic : {AbsentStr}, notes : {AbsentStr}, tags : {AbsentTags}]

InitSort ==
    /\ InitCommon
    /\ stored \in UNION { [1..n -> SortRecords] : n \in 0..MaxBatch }
    /\ rev = "app"
    /\ loaded = FALSE
    /\ StoreAtOnce

\* The batch is loaded once; the clock may move before the load settles.
NextSort == Tick \/ LoadSettle

SpecSort == InitSort /\ [][NextSort]_vars

---------------------------------------------------------------------------
\* The filters and the heatmap counts over a loaded collection.

\* onChange of the range select: setFilterRange(e.target.value)
SetFilterRange ==
    \E range \in Ranges :
        /\ filterRange' = range
        /\ last' = Op("setFilterRange", NoObj, TRUE)
        /\ UNCHANGED <<now, swVars, tick, appVars, loadVars, envVars, selectedTags, tz,
                       activeMs, mono, runStart, backs>>
        /\ Render

\* onClick of a tag button: the tag leaves the selection if it is in it,
\* else joins it (the selection is an array used as a set)
ToggleTag ==
    \E tag \in allTags :
        /\ selectedTags' = IF tag \in selectedTags
                             THEN selectedTags \ {tag}
                             ELSE selectedTags \cup {tag}
        /\ last' = Op("toggleTag", NoObj, TRUE)
        /\ UNCHANGED <<now, swVars, tick, appVars, loadVars, envVars, filterRange, tz,
                       activeMs, mono, runStart, backs>>
        /\ Render

NextView == LoadSettle \/ SetFilterRange \/ ToggleTag

ViewDays == 33    \* days from the epoch to the day the app is opened on
WalkDays == 3     \* days before the clock in which the stored sessions lie
ViewBatch == 2    \* records in the stored batch the filters are applied to

\* The clock when the app is opened.
ViewNow == ViewDays * DayMs + 1

\* A session as the app saves it: one that the stopwatch or an edit made
\* (startAt a timestamp), or one that an edit with the start input cleared
\* made (startAt null, durationMs = endAt - 0).
SavedRecord(sa, ea, tags) ==
    [id |-> UNDEF, startAt |-> sa, endAt |-> ea, durationMs |-> Minus(ea, sa),
     date |-> UNDEF, topic |-> "algebra", notes |-> "",
     tags |-> [isArray |-> TRUE, items |-> tags]]

WalkTimes == (ViewNow - WalkDays * DayMs)..ViewNow

\* Stored sessions of the last days, of every start and end.
DayRecords ==
    { SavedRecord(sa, ea, <<"math">>) :
          sa \in {t \in WalkTimes : t < ViewNow} \cup {NULL}, ea \in WalkTimes }

InitDays ==
    /\ InitAt(ViewNow)
    /\ tz \in TzOffsets
    /\ stored \in { <<r>> : r \in {d \in DayRecords : Gt(d.endAt, d.startAt)} }
    /\ rev = "app"
    /\ loaded = FALSE
    /\ StoreAtOnce

SpecDays == InitDays /\ [][NextView]_vars

\* Stored sessions that ended a number of days ago.
DaysAgo(n) == ViewNow - n * DayMs

FilterEnds == {DaysAgo(6), DaysAgo(7), DaysAgo(7) - 1, DaysAgo(8), DaysAgo(32)}

FilterRecords ==
    { SavedRecord(ea - 1, ea, tags) :
          ea \in FilterEnds, tags \in {<<>>, <<"hist">>, <<"math", "review">>} }

InitView ==
    /\ InitAt(ViewNow)
    /\ tz = 0
    /\ stored \in UNION { [1..n -> FilterRecords] : n \in 1..ViewBatch }
    /\ rev = "app"
    /\ loaded = FALSE
    /\ StoreAtOnce

SpecView == InitView /\ [][NextView]_vars

\* The list with its load effect settled: the stored batch is empty, the
\* sessions come from the stopwatch and are edited and deleted afterwards.
NextOrder == LoadSettle \/ NextEdit

SpecOrder == Init /\ [][NextOrder]_vars

\* The tag buttons over a loaded collection whose sessions are edited and
\* deleted.
TagRecord(tags) == SavedRecord(DaysAgo(1) - 1, DaysAgo(1), tags)

TagBatches ==
    { <<TagRecord(<<"math", "review">>)>>,
      <<TagRecord(<<"hist">>), TagRecord(<<"math", "review">>)>>,
      <<TagRecord(<<>>), TagRecord(<<"math">>)>> }

InitTags ==
    /\ InitAt(ViewNow)
    /\ tz = 0
    /\ stored \in TagBatches
    /\ rev = "app"
    /\ loaded = FALSE
    /\ StoreAtOnce

NextTags ==
    \/ LoadSettle \/ ToggleTag
    \/ openEditor \/ SetDraftTags \/ saveEdit \/ deleteSession

SpecTags == InitTags /\ [][NextTags]_vars

---------------------------------------------------------------------------
\* The steps of db.js.  The handlers run between the awaits of saveSessions
\* and loadSessions; a request's effect is on db at once and is undone if
\* its transaction aborts.

RemoveAt(seq, i) == SubSeq(seq, 1, i - 1) \o SubSeq(seq, i + 1, Len(seq))

TxMayRun_unordered(i) == loadPc # "getAll"

\* db.transaction(STORE_NAME, "readwrite"): the transactions on the one
\* object store run one at a time in the order they were created, which is
\* the order of the calls, and after the getAll of loadSessions, whose
\* transaction is the first of the page.
TxMayRun(i) == i = 1 /\ loadPc # "getAll"

\* What no step of db.js touches.
PageFrame ==
    UNCHANGED <<now, swVars, uiVars, appVars, rev, sched, viewVars,
                activeMs, mono, runStart, backs>>

\* saveSessions: const db = await getDB(); const tx = ...; await store.clear()
SaveClear ==
    \E i \in 1..Len(calls) :
        /\ calls[i].pc = "open"
        /\ TxMayRun(i)
        /\ db' = <<>>
        /\ calls' = [calls EXCEPT ![i].pc = "add", ![i].before = db]
        /\ last' = Op("saveClear", NoObj, TRUE)
        /\ UNCHANGED <<stored, loaded, loadPc, legacyEntry>>
        /\ PageFrame

EntryAfterMigration_kept(ok) == legacyEntry

EntryAfterMigration_always_removed(ok) == NoObj

\* loadSessions after await saveSessions(parsed):
\* localStorage.removeItem("study_sessions_v1"); a throw skips it
EntryAfterMigration(ok) == IF ok THEN NoObj ELSE legacyEntry

Settle_retries(i, ok) ==
    LET call   == calls[i]
        before == IF call.pc = "add" THEN call.before ELSE db
    IN  /\ db' = IF ok THEN db ELSE before
        /\ calls' = IF ok \/ call.by = "migration"
                      THEN RemoveAt(calls, i)
                      ELSE Append(RemoveAt(calls, i), SaveCall(call.records, call.by))
        /\ IF call.by = "migration"
             THEN /\ loadPc' = "resolved"
                  /\ stored' = IF ok THEN call.records ELSE <<>>
                  /\ legacyEntry' = EntryAfterMigration(ok)
             ELSE UNCHANGED <<stored, loadPc, legacyEntry>>
        /\ last' = Op(IF ok THEN "saved" ELSE "saveFailed",
                      Some([records |-> call.records, before |-> before, by |-> call.by]),
                      ok)
        /\ UNCHANGED loaded
        /\ PageFrame

\* The promise of call i settles: saveSessions returns after tx.done, or it
\* throws; a transaction that fails aborts and the store is as it found it.
\* The save effect only logs a failure.  The migration goes on after its
\* await: localStorage.removeItem and sessions = parsed, or the catch that
\* logs "Migration failed", and loadSessions returns.
Settle(i, ok) ==
    LET call   == calls[i]
        before == IF call.pc = "add" THEN call.before ELSE db
    IN  /\ db' = IF ok THEN db ELSE before
        /\ calls' = RemoveAt(calls, i)
        /\ IF call.by = "migration"
             THEN /\ loadPc' = "resolved"
                  /\ stored' = IF ok THEN call.records ELSE <<>>
                  /\ legacyEntry' = EntryAfterMigration(ok)
             ELSE UNCHANGED <<stored, loadPc, legacyEntry>>
        /\ last' = Op(IF ok THEN "saved" ELSE "saveFailed",
                      Some([records |-> call.records, before |-> before, by |-> call.by]),
                      ok)
        /\ UNCHANGED loaded
        /\ PageFrame

\* saveSessions: for (const session of sessions) await store.add(session);
\* add fails when the store holds a record with the session's id
SaveAdd ==
    \E i \in 1..Len(calls) :
        /\ calls[i].pc = "add"
        /\ calls[i].n < Len(calls[i].records)
        /\ TxMayRun(i)
        /\ LET rec == calls[i].records[calls[i].n + 1]
           IN  IF \E k \in 1..Len(db) : rec.id # UNDEF /\ db[k].id = rec.id
                 THEN Settle(i, FALSE)
                 ELSE /\ db' = Append(db, rec)
                      /\ calls' = [calls EXCEPT ![i].n = @ + 1]
                      /\ last' = Op("saveAdd", NoObj, TRUE)
                      /\ UNCHANGED <<stored, loaded, loadPc, legacyEntry>>
                      /\ PageFrame

\* saveSessions: await tx.done
SaveDone ==
    \E i \in 1..Len(calls) :
        /\ calls[i].pc = "add"
        /\ calls[i].n = Len(calls[i].records)
        /\ TxMayRun(i)
        /\ Settle(i, TRUE)

\* saveSessions throws: getDB rejects, or a request or the commit of its
\* transaction fails
SaveFail ==
    \E i \in 1..Len(calls) :
        /\ calls[i].pc = "open" \/ TxMayRun(i)
        /\ Settle(i, FALSE)

\* The value of the legacy entry: text that JSON.parse rejects, or the JSON
\* of an array of records.
BadJson == [valid |-> FALSE, items |-> <<>>]
JsonOf(records) == [valid |-> TRUE, items |-> records]

\* loadSessions: getDB, db.getAll (the records by key, the keys being the
\* ids), and with nothing in the store the legacy entry: without one, or
\* one that does not parse, it returns the empty result; else it calls
\* saveSessions(parsed)
LoadGetAll ==
    \E f \in KeyOrders(Len(db)) :
        /\ sched = "steps"
        /\ loadPc = "getAll"
        /\ stored' = [i \in 1..Len(db) |-> db[f[i]]]
        /\ IF Len(db) = 0 /\ legacyEntry # NoObj /\ legacyEntry[1].valid
             THEN /\ loadPc' = "migrate"
                  /\ calls' = Append(calls, SaveCall(legacyEntry[1].items, "migration"))
             ELSE /\ loadPc' = "resolved"
                  /\ UNCHANGED calls
        /\ last' = Op("getAll", NoObj, TRUE)
        /\ UNCHANGED <<db, loaded, legacyEntry>>
        /\ PageFrame

LoadFail_retries ==
    /\ sched = "steps"
    /\ loadPc = "getAll"
    /\ loadPc' = "getAll"
    /\ loaded' = loaded
    /\ last' = Op("loadFailed", NoObj, FALSE)
    /\ UNCHANGED <<db, calls, stored, legacyEntry>>
    /\ PageFrame

\* loadSessions rejects (getDB or getAll fails) and the catch of the load
\* effect logs it
LoadFail ==
    /\ sched = "steps"
    /\ loadPc = "getAll"
    /\ loadPc' = "rejected"
    /\ loaded' = TRUE
    /\ last' = Op("loadFailed", NoObj, FALSE)
    /\ UNCHANGED <<db, calls, stored, legacyEntry>>
    /\ PageFrame

\* The page is closed and opened again: a transaction that has not
\* committed is aborted, the component state is the initial one, and the
\* two effects of the mount run: loadSessions() is called, and the current
\* revision calls saveSessions([]).
MountCalls == IF rev = "app" THEN <<SaveCall(<<>>, "effect")>> ELSE <<>>

Restart ==
    /\ sched = "steps"
    /\ db' = IF calls # <<>> /\ calls[1].pc = "add" THEN calls[1].before ELSE db
    /\ calls' = MountCalls
    /\ loadPc' = "getAll"
    /\ loaded' = FALSE
    /\ stored' = <<>>
    /\ isRunning' = FALSE /\ startAt' = NULL /\ elapsedOffset' = 0
    /\ tick' = 0 /\ rendered' = 0
    /\ showConfirm' = FALSE /\ sessions' = <<>> /\ editingId' = NULL /\ editDraft' = NoObj
    /\ filterRange' = "year" /\ selectedTags' = {}
    /\ filteredSessions' = <<>> /\ countsByDay' = NoCounts
    /\ activeMs' = 0 /\ mono' = TRUE /\ runStart' = NULL
    /\ last' = Op("restart", NoObj, TRUE)
    /\ UNCHANGED <<now, nextId, rev, sched, tz, legacyEntry, backs>>

\* A record of the legacy entry, as the earlier app wrote it, and a record
\* of the store, as this app wrote it.
LegacyRecord ==
    [id |-> StoredId, startAt |-> ViewNow - DayMs - SecMs, endAt |-> ViewNow - DayMs,
     durationMs |-> SecMs, date |-> UNDEF,
     topic |-> "algebra", notes |-> "n", tags |-> AbsentTags]

AppRecord ==
    [id |-> StoredId, startAt |-> ViewNow - DayMs - SecMs, endAt |-> ViewNow - DayMs,
     durationMs |-> SecMs, date |-> UNDEF,
     topic |-> "algebra", notes |-> "n", tags |-> [isArray |-> TRUE, items |-> <<>>]]

\* StopwatchSection hands App a session of one second that has just ended:
\* onSessionComplete(newSession)
SessionCompleted ==
    /\ nextId < MaxSessions
    /\ handleSessionComplete(NewSession([startAt |-> now - SecMs, endAt |-> now,
                                         durationMs |-> SecMs]))
    /\ nextId' = nextId + 1
    /\ last' = Op("sessionCompleted", NoObj, TRUE)
    /\ UNCHANGED <<now, swVars, tick, showConfirm, editingId, editDraft, loadVars,
                   envVars, viewVars, activeMs, mono, runStart, backs>>
    /\ Render

\* The page is opened on a store that is empty, with or without a legacy
\* entry, or that holds a record.
InitStore ==
    /\ InitAt(ViewNow)
    /\ tz = 0
    /\ stored = <<>>
    /\ rev = "app"
    /\ loaded = FALSE
    /\ sched = "steps"
    /\ loadPc = "getAll"
    /\ calls = MountCalls
    /\ \/ db = <<>> /\ legacyEntry \in {NoObj, Some(BadJson), Some(JsonOf(<<>>)),
                                       Some(JsonOf(<<LegacyRecord>>))}
       \/ db = <<AppRecord>> /\ legacyEntry = NoObj

NextStore ==
    \/ SessionCompleted \/ deleteSession
    \/ LoadGetAll \/ LoadFail \/ LoadSettle
    \/ SaveClear \/ SaveAdd \/ SaveDone \/ SaveFail
    \/ Restart

SpecStore == InitStore /\ [][NextStore]_vars

\* One visit of the page in which every call of db.js succeeds.
NextSync ==
    \/ SessionCompleted \/ deleteSession
    \/ LoadGetAll \/ LoadSettle
    \/ SaveClear \/ SaveAdd \/ SaveDone

SpecSync == InitStore /\ [][NextSync]_vars

\* A second record of the store.
OtherRecord == [AppRecord EXCEPT !.id = StoredId + 1, !.topic = "history"]

\* The page is opened on a store that holds sessions; every call of db.js
\* succeeds and the user deletes nothing.
InitStartup ==
    /\ InitAt(ViewNow)
    /\ tz = 0
    /\ stored = <<>>
    /\ rev = "app"
    /\ loaded = FALSE
    /\ sched = "steps"
    /\ loadPc = "getAll"
    /\ calls = MountCalls
    /\ db \in {<<AppRecord>>, <<AppRecord, OtherRecord>>}
    /\ legacyEntry \in {NoObj, Some(JsonOf(<<LegacyRecord>>))}

NextStartup ==
    \/ SessionCompleted
    \/ LoadGetAll \/ LoadSettle
    \/ SaveClear \/ SaveAdd \/ SaveDone

SpecStartup == InitStartup /\ [][NextStartup]_vars

---------------------------------------------------------------------------
\* The heatmap's colour tiers.

\* const DEFAULT_THRESHOLDS = [1, 1800, 3600, 7200, 10800, 14400, 18000, 21600, 25200]
\* (t[k] of the source is DEFAULT_THRESHOLDS[k + 1] here)
DEFAULT_THRESHOLDS == <<1, 1800, 3600, 7200, 10800, 14400, 18000, 21600, 25200>>

colorForCount_top_swapped(seconds) ==
    LET t == DEFAULT_THRESHOLDS
    IN  IF seconds = 0 \/ seconds = NaN \/ seconds <= 0 THEN "bg-gray-700"
        ELSE IF seconds >= t[9] THEN "bg-green-300"
        ELSE IF seconds >= t[8] THEN "bg-green-200"
        ELSE IF seconds >= t[7] THEN "bg-green-400"
        ELSE IF seconds >= t[6] THEN "bg-green-500"
        ELSE IF seconds >= t[5] THEN "bg-green-600"
        ELSE IF seconds >= t[4] THEN "bg-green-700"
        ELSE IF seconds >= t[3] THEN "bg-green-800"
        ELSE IF seconds >= t[2] THEN "bg-green-900"
        ELSE IF seconds >= t[1] THEN "bg-green-950"
        ELSE "bg-gray-700"

\* colorForCount(seconds): if (!seconds || seconds <= 0) return "bg-gray-700";
\* then the thresholds from the highest down
colorForCount(seconds) ==
    LET t == DEFAULT_THRESHOLDS
    IN  IF seconds = 0 \/ seconds = NaN \/ seconds <= 0 THEN "bg-gray-700"
        ELSE IF seconds >= t[9] THEN "bg-green-200"
        ELSE IF seconds >= t[8] THEN "bg-green-300"
        ELSE IF seconds >= t[7] THEN "bg-green-400"
        ELSE IF seconds >= t[6] THEN "bg-green-500"
        ELSE IF seconds >= t[5] THEN "bg-green-600"
        ELSE IF seconds >= t[4] THEN "bg-green-700"
        ELSE IF seconds >= t[3] THEN "bg-green-800"
        ELSE IF seconds >= t[2] THEN "bg-green-900"
        ELSE IF seconds >= t[1] THEN "bg-green-950"
        ELSE "bg-gray-700"

ColorMargin == 1    \* how far around 0 and each threshold the inputs lie

\* Numbers of seconds around 0 and around every threshold.
ColorInputs ==
    UNION { (c - ColorMargin)..(c + ColorMargin) :
                c \in {0} \cup { DEFAULT_THRESHOLDS[k] : k \in DOMAIN DEFAULT_THRESHOLDS } }

\* Two heatmap tiles are coloured: className = colorForCount(seconds)
ColorTiles ==
    \E s1, s2 \in ColorInputs :
        /\ last' = Op("colorForCount",
                      Some([seconds |-> <<s1, s2>>,
                            className |-> <<colorForCount(s1), colorForCount(s2)>>]),
                      TRUE)
        /\ UNCHANGED <<now, swVars, uiVars, appVars, loadVars, envVars, viewVars,
                       storeVars, activeMs, mono, runStart, backs>>

SpecColor == Init /\ [][ColorTiles]_vars

---------------------------------------------------------------------------
\* The heatmap's day axis.

YearWeeks == 1    \* whole weeks of the heatmap's year (the 52 of 365 = 7 * 52 + 1)

\* The 365 of daysArray(365 + today.getDay())
HEATMAP_YEAR == 7 * YearWeeks + 1

\* The local time of the environment: tz ahead of UTC, except from z.from
\* up to z.to, where it is z.shift further ahead (the other half of a year
\* with daylight saving time).
ZoneOffset(z, t) == tz + (IF z.from <= t /\ t < z.to THEN z.shift ELSE 0)

\* The local calendar day of an instant (getFullYear, getMonth, getDate).
ZoneDay(z, t) == (t + ZoneOffset(z, t)) \div DayMs

\* d.setHours(0, 0, 0, 0); d.getTime(): the instant of the local midnight
\* that begins the local day of t
ZoneMidnight(z, t) ==
    LET plain == ZoneDay(z, t) * DayMs - tz
        moved == plain - z.shift
    IN  IF ZoneOffset(z, moved) = tz + z.shift THEN moved ELSE plain

\* d.getDay(): 0 is Sunday; 1 January 1970 was a Thursday
getDay(z, t) == (ZoneDay(z, t) + 4) % 7

\* startOfDayISO(d) in the zone: the UTC date of the local midnight
ZoneKey(z, t) == ZoneMidnight(z, t) \div DayMs

\* daysArray(days): base is today's local midnight, and the entries are
\* base - i * MS_PER_DAY for i = days - 1 down to 0
daysArray(z, days) ==
    LET base == ZoneMidnight(z, now)
    IN  [k \in 1..days |-> base - (days - k) * DayMs]

\* The instant in the middle of the UTC day n.
MidDay(n) == n * DayMs + DayMs \div 2

\* The zones: one without a change of the offset, and zones whose offset
\* was an hour less or more until WalkDays + 1 days ago, either from two
\* days before that or from before the axis begins.
DstShift == 1

NoDst == [from |-> 0, to |-> 0, shift |-> 0]

ZoneRules ==
    LET today == now \div DayMs
        until == today - (WalkDays + 1)
    IN  {NoDst} \cup
        { [from |-> MidDay(since), to |-> MidDay(until), shift |-> s] :
              since \in {until - 2, until - 2 * HEATMAP_YEAR},
              s \in {0 - DstShift, DstShift} }

\* Heatmap renders: dayList = daysArray(365 + today.getDay()), and for each
\* d of it key = startOfDayISO(d), seconds = countsByDay[key] || 0 and
\* className = colorForCount(seconds)
HeatmapTiles ==
    \E z \in ZoneRules :
        LET dayList == daysArray(z, HEATMAP_YEAR + getDay(z, now))
            keys    == [k \in DOMAIN dayList |-> ZoneKey(z, dayList[k])]
            seconds == [k \in DOMAIN dayList |->
                           IF keys[k] \in DOMAIN countsByDay
                             THEN OrElse(countsByDay[keys[k]], 0)
                             ELSE 0]
        IN  /\ last' = Op("heatmap",
                          Some([zone |-> z, dayList |-> dayList, key |-> keys,
                                seconds |-> seconds,
                                className |-> [k \in DOMAIN dayList |->
                                                  colorForCount(seconds[k])]]),
                          TRUE)
            /\ UNCHANGED <<now, swVars, uiVars, appVars, loadVars, envVars, viewVars,
                           storeVars, activeMs, mono, runStart, backs>>

\* The app is opened on each day of a week, in each time zone, on a store
\* that is empty or holds a session of yesterday or of the day before.
InitHeat ==
    /\ \E k \in 0..6 : InitAt(ViewNow + k * DayMs)
    /\ tz \in TzOffsets
    /\ stored \in {<<>>} \cup
                  { <<SavedRecord(now - n * DayMs - SecMs, now - n * DayMs, <<>>)>> :
                        n \in 1..2 }
    /\ rev = "app"
    /\ loaded = FALSE
    /\ StoreAtOnce

NextHeat == LoadSettle \/ HeatmapTiles

SpecHeat == InitHeat /\ [][NextHeat]_vars

---------------------------------------------------------------------------
\* Claims about the hook, checked under SpecHook.

\* The duration stop() computes, from the state it was called in.
PreDuration ==
    last.elapsedOffset + (IF last.isRunning THEN last.at - last.startAt ELSE 0)

\* C1: from every stopwatch state, after stop() the stopwatch is idle
\* (isRunning false, startAt null, elapsedOffset 0), whether stop() returned
\* a draft or null.
C1_StopResetsToIdle ==
    last.op = "stop" => (~isRunning /\ startAt = NULL /\ elapsedOffset = 0)

\* stop() was called while running after an earlier pause, and returned a draft.
C1_Witness ==
    /\ last.op = "stop"
    /\ last.isRunning
    /\ last.elapsedOffset > 0
    /\ last.ret # NoObj
    /\ ~isRunning /\ startAt = NULL /\ elapsedOffset = 0

\* C2: under a non-decreasing clock, the durationMs of the draft stop()
\* returns is the clock time that passed while the stopwatch was running,
\* summed over the running segments of the run; paused time is not counted.
C2_DurationIsRunningTime ==
    (last.op = "stop" /\ last.mono /\ last.ret # NoObj)
        => last.ret[1].durationMs = last.active

\* A run with a pause of positive length in it: the draft starts later than
\* the run did, and the stopwatch was running again when it was stopped.
C2_Witness ==
    /\ last.op = "stop"
    /\ last.mono
    /\ last.isRunning
    /\ last.ret # NoObj
    /\ last.ret[1].durationMs = last.active
    /\ last.ret[1].startAt > last.runStart
    /\ last.startAt < last.at

\* C3: stop() with final duration d > 0 returns the draft with endAt = now,
\* startAt = now - d and durationMs = d, so endAt - startAt = durationMs and
\* endAt > startAt.
C3_DraftShape ==
    (last.op = "stop" /\ PreDuration > 0) =>
        /\ last.ret = Some([durationMs |-> PreDuration,
                            startAt    |-> last.at - PreDuration,
                            endAt      |-> last.at])
        /\ last.ret[1].endAt - last.ret[1].startAt = last.ret[1].durationMs
        /\ last.ret[1].endAt > last.ret[1].startAt

\* stop() while running with time also carried over from an earlier segment.
C3_Witness ==
    /\ last.op = "stop"
    /\ last.isRunning
    /\ last.elapsedOffset > 0
    /\ last.at > last.startAt
    /\ last.ret # NoObj
    /\ last.ret[1].startAt < last.startAt

\* C5: in every reachable stopwatch state and at every clock value,
\* currentElapsed = elapsedOffset + (isRunning ? now - startAt : 0) and it
\* is >= 0.
C5_ElapsedNonNegative ==
    /\ currentElapsed = elapsedOffset + (IF isRunning THEN now - startAt ELSE 0)
    /\ currentElapsed >= 0

\* C6 as stated: start() changes the stopwatch only when it is idle; while
\* running or paused (not running, elapsedOffset > 0) it changes nothing.
C6_StartOnlyFromIdle ==
    last.op = "start" =>
        IF last.isRunning \/ last.elapsedOffset > 0
          THEN swVars = <<last.isRunning, last.startAt, last.elapsedOffset>>
          ELSE swVars = <<TRUE, last.at, last.elapsedOffset>>

\* C6 as amended: start() changes nothing while running; whenever the
\* stopwatch is not running (idle or paused) it sets startAt = now and
\* enters running, and elapsedOffset keeps its value.
C6_StartWhenNotRunning ==
    last.op = "start" =>
        IF last.isRunning
          THEN swVars = <<last.isRunning, last.startAt, last.elapsedOffset>>
          ELSE swVars = <<TRUE, last.at, last.elapsedOffset>>

\* start() was called on a paused stopwatch and set it running.
C6_Witness ==
    /\ last.op = "start"
    /\ ~last.isRunning
    /\ last.elapsedOffset > 0
    /\ isRunning
    /\ startAt = last.at
    /\ elapsedOffset = last.elapsedOffset

\* C7: pause() while running adds exactly now - startAt to elapsedOffset,
\* clears startAt and leaves the stopwatch not running; pause() while not
\* running changes nothing.
C7_Pause ==
    last.op = "pause" =>
        IF last.isRunning
          THEN /\ elapsedOffset = last.elapsedOffset + (last.at - last.startAt)
               /\ startAt = NULL
               /\ ~isRunning
          ELSE swVars = <<last.isRunning, last.startAt, last.elapsedOffset>>

\* pause() on a running stopwatch, in its second segment, after time passed.
C7_Witness ==
    /\ last.op = "pause"
    /\ last.isRunning
    /\ last.elapsedOffset > 0
    /\ last.at > last.startAt
    /\ elapsedOffset = last.elapsedOffset + (last.at - last.startAt)
    /\ startAt = NULL

---------------------------------------------------------------------------
\* Claims about the stopwatch section, checked under Spec.

\* C4: stop() called when the final duration is 0 or negative returns null,
\* no session is added to the session collection, and the stopwatch is idle
\* afterwards.
C4_DegenerateStop ==
    [][(last'.op = "confirmSave" /\ stopDuration <= 0) =>
          /\ last'.ret = NoObj
          /\ sessions' = sessions
          /\ ~isRunning' /\ startAt' = NULL /\ elapsedOffset' = 0]_vars

\* The confirmation was answered YES after the clock had been set back to
\* before the start of the running segment: the final duration was negative.
C4_Witness ==
    /\ last.op = "confirmSave"
    /\ last.isRunning
    /\ PreDuration < 0
    /\ last.ret = NoObj
    /\ ~isRunning /\ startAt = NULL /\ elapsedOffset = 0

---------------------------------------------------------------------------
\* Claims about the session list and its edit form, checked under SpecEdit.
\* endAt - startAt and endAt > startAt are evaluated as the program
\* evaluates them (Minus, Gt): a null endpoint counts as 0.

C10_RejectedEditNoChange ==
    [][(/\ last'.op = "saveEdit"
        /\ editDraft # NoObj
        /\ \/ Leq(editDraft[1].endAt, editDraft[1].startAt)
           \/ Gt(editDraft[1].endAt, now)) =>
          /\ ~last'.ok
          /\ sessions' = sessions
          /\ editingId' = editingId
          /\ editDraft' = editDraft]_vars

\* Save was pressed on a draft that ends after it starts, but in the future.
C10_Witness ==
    /\ last.op = "saveEdit" /\ ~last.ok
    /\ editDraft # NoObj
    /\ editingId # NULL
    /\ Gt(editDraft[1].endAt, editDraft[1].startAt)
    /\ Gt(editDraft[1].endAt, now)

\* C11: an edit whose draft has a missing start or a missing end (null, as
\* a cleared or unparsable datetime input gives) is rejected and the session
\* collection is unchanged.
C11_MissingStartOrEndRejected ==
    [][(/\ last'.op = "saveEdit"
        /\ editDraft # NoObj
        /\ \/ editDraft[1].startAt = NULL
           \/ editDraft[1].endAt = NULL) =>
          /\ ~last'.ok
          /\ sessions' = sessions]_vars

---------------------------------------------------------------------------
\* Claims about the load effect, checked under SpecLoad.

\* C8: after the load-time normalization every session has
\* durationMs = endAt - startAt, whichever of startAt, endAt, durationMs and
\* date the stored record supplies.
C8_NormalizedDuration ==
    loaded =>
        \A i \in 1..Len(sessions) :
            sessions[i].durationMs = Minus(sessions[i].endAt, sessions[i].startAt)

\* C12: normalization is idempotent: applied to its own output, as the next
\* start of the app does with what was saved, it gives a record equal to
\* that output in id, startAt, endAt, durationMs, topic, notes and tags.
C12_NormalizeIdempotent ==
    [][last'.op = "reopen" =>
          /\ Len(sessions') = Len(sessions)
          /\ \A i \in 1..Len(sessions) :
                \E j \in 1..Len(sessions') :
                    /\ sessions'[j].id = sessions[i].id
                    /\ sessions'[j].startAt = sessions[i].startAt
                    /\ sessions'[j].endAt = sessions[i].endAt
                    /\ sessions'[j].durationMs = sessions[i].durationMs
                    /\ sessions'[j].topic = sessions[i].topic
                    /\ sessions'[j].notes = sessions[i].notes
                    /\ sessions'[j].tags = sessions[i].tags]_vars

\* The app was opened again at a later clock value than the one the first
\* load took a missing endAt from, on a record that got its id, its topic
\* and its duration from the normalizer.
C12_Witness ==
    /\ last.op = "reopen"
    /\ Len(sessions) = 1
    /\ sessions[1].id = 1
    /\ sessions[1].topic = NoTopic
    /\ sessions[1].durationMs = 0
    /\ sessions[1].date = UNDEF
    /\ sessions[1].endAt < last.at

\* The stored record a loaded session was made from.
MadeFrom(sess, i) == OrElse(stored[i].id, i) = sess.id

\* C13: for a stored record without startAt, normalization sets
\* startAt = (resolved endAt) - durationMs when durationMs is present, the
\* resolved endAt being the one the session gets (from endAt, else from the
\* legacy date, else the clock), and startAt = resolved endAt when
\* durationMs is absent.
C13_StartDerivedFromResolvedEnd ==
    last.op = "load" =>
        \A j \in 1..Len(sessions) :
            \E i \in 1..Len(stored) :
                /\ MadeFrom(sessions[j], i)
                /\ Nullish(stored[i].startAt) =>
                      sessions[j].startAt =
                          Minus(sessions[j].endAt,
                                IF Nullish(stored[i].durationMs)
                                  THEN 0 ELSE stored[i].durationMs)

\* C14: when the load returns a non-empty batch, the collection set from it
\* is ordered by endAt descending: each element's endAt is >= the next one's.
C14_LoadedSorted ==
    loaded =>
        \A i \in 1..(Len(sessions) - 1) : sessions[i].endAt >= sessions[i + 1].endAt

\* A batch of three was loaded that was stored oldest first, its ends taken
\* from endAt, from the legacy date and from the clock.
C14_Witness ==
    /\ last.op = "load"
    /\ Len(sessions) = 3
    /\ stored[1].endAt = 1
    /\ stored[2].endAt = UNDEF /\ stored[2].date = 2
    /\ stored[3].endAt = UNDEF /\ stored[3].date = UNDEF
    /\ sessions[1].endAt > sessions[2].endAt
    /\ sessions[2].endAt > sessions[3].endAt

\* C15: every session of the collection, in every reachable state (after
\* load, create, edit), has a non-empty topic ("(no topic)" when none was
\* given), a string for notes, and tags that are all non-empty after
\* trimming.
C15_TextFieldsCanonical ==
    \A i \in 1..Len(sessions) :
        /\ sessions[i].topic \notin {"", AbsentStr}
        /\ sessions[i].notes # AbsentStr
        /\ \A k \in 1..Len(sessions[i].tags) : Trim(sessions[i].tags[k]) # ""

---------------------------------------------------------------------------
\* Claims about the aggregation, checked under SpecDays and SpecView.

\* The sum of the values of all day buckets.
RECURSIVE SumOver(_, _)
SumOver(counts, keys) ==
    IF keys = {} THEN 0
    ELSE LET k == CHOOSE x \in keys : TRUE
         IN  counts[k] + SumOver(counts, keys \ {k})

BucketSum == SumOver(countsByDay, DOMAIN countsByDay)

Abs(x) == IF x < 0 THEN 0 - x ELSE x

\* v is the number of seconds nearest to d clock units, halves upward.
IsSecondsOf(v, d) == 2 * d - SecMs < 2 * v * SecMs /\ 2 * v * SecMs <= 2 * d + SecMs

\* The one session of the collection is among the filtered ones.
OneFiltered == Len(sessions) = 1 /\ filteredSessions = sessions

\* C16: the day decomposition conserves duration: for a session with
\* endAt > startAt, the seconds it adds over all day buckets sum to
\* round((endAt - startAt)/1000), within plus or minus the number of days
\* the session spans.
C16_DecompositionConserves ==
    (OneFiltered /\ Gt(sessions[1].endAt, sessions[1].startAt)) =>
        LET sa == ToNumber(sessions[1].startAt)
            ea == ToNumber(sessions[1].endAt)
        IN  Abs(BucketSum - MathRound(ea - sa, SecMs))
                <= LocalDay(ea) - LocalDay(sa) + 1

\* C17: a session that starts on one local day and ends on the next (it
\* crosses exactly one local midnight) adds to exactly two day buckets: the
\* one keyed by the start's day gets the seconds up to midnight, the one
\* keyed by the next day the seconds after it, and the two values sum to
\* the session's duration in seconds.
C17_MidnightSplit ==
    (/\ OneFiltered
     /\ sessions[1].startAt > 0
     /\ LocalDay(sessions[1].endAt) = LocalDay(sessions[1].startAt) + 1
     /\ sessions[1].endAt > NextMidnight(sessions[1].startAt)) =>
        LET sa  == sessions[1].startAt
            ea  == sessions[1].endAt
            mid == NextMidnight(sa)
        IN  /\ DOMAIN countsByDay = {LocalDay(sa), LocalDay(sa) + 1}
            /\ IsSecondsOf(countsByDay[LocalDay(sa)], mid - sa)
            /\ IsSecondsOf(countsByDay[LocalDay(sa) + 1], ea - mid)
            /\ IsSecondsOf(BucketSum, ea - sa)

\* C18: a session that starts and ends on the same local day adds to
\* exactly one day bucket, and what it adds is its full duration in seconds.
C18_SameDayOneBucket ==
    (/\ OneFiltered
     /\ sessions[1].startAt > 0
     /\ sessions[1].endAt > sessions[1].startAt
     /\ LocalDay(sessions[1].endAt) = LocalDay(sessions[1].startAt)) =>
        /\ Cardinality(DOMAIN countsByDay) = 1
        /\ IsSecondsOf(BucketSum, sessions[1].endAt - sessions[1].startAt)

\* A session of one and a half seconds within one local day, east of UTC,
\* was loaded and counted.
C18_Witness ==
    /\ OneFiltered
    /\ tz > 0
    /\ sessions[1].startAt > 0
    /\ sessions[1].endAt - sessions[1].startAt = SecMs + 1
    /\ LocalDay(sessions[1].endAt) = LocalDay(sessions[1].startAt)
    /\ Cardinality(DOMAIN countsByDay) = 1
    /\ BucketSum >= 1

\* The session is among the filtered ones.
InFiltered(sess) == \E k \in 1..Len(filteredSessions) : filteredSessions[k] = sess

\* The session's endAt, or its startAt when endAt is absent.
EndOrStart(sess) == IF Nullish(sess.endAt) THEN sess.startAt ELSE sess.endAt

\* C19: the range filter keeps a session iff its endAt (or its startAt when
\* endAt is absent) is >= the cutoff, now minus the selected range; for the
\* range "week" a session that ended 8 days ago is excluded and one that
\* ended 6 days ago is included.
C19_RangeFilter ==
    selectedTags = {} =>
        /\ \E n \in RangeDays(filterRange) :
              \A i \in 1..Len(sessions) :
                  InFiltered(sessions[i]) <=> EndOrStart(sessions[i]) >= now - n * DayMs
        /\ filterRange = "week" =>
              \A i \in 1..Len(sessions) :
                  /\ sessions[i].endAt = now - 8 * DayMs => ~InFiltered(sessions[i])
                  /\ sessions[i].endAt = now - 6 * DayMs => InFiltered(sessions[i])
                  /\ InFiltered(sessions[i]) <=> sessions[i].endAt >= now - 7 * DayMs

\* With the range "week", of a session that ended 8 days ago and one that
\* ended 6 days ago only the second is kept.
C19_Witness ==
    /\ filterRange = "week"
    /\ selectedTags = {}
    /\ \E i, j \in 1..Len(sessions) :
          /\ sessions[i].endAt = now - 8 * DayMs /\ ~InFiltered(sessions[i])
          /\ sessions[j].endAt = now - 6 * DayMs /\ InFiltered(sessions[j])

\* The tags of a session, as a set.
TagSet(sess) == { sess.tags[k] : k \in 1..Len(sess.tags) }

\* C20: with a non-empty tag selection a date-filtered session is kept iff
\* it has at least one tag in the selection; with an empty selection every
\* date-filtered session is kept.
C20_TagFilter ==
    \E n \in RangeDays(filterRange) :
        \A i \in 1..Len(sessions) :
            InFiltered(sessions[i]) <=>
                /\ EndOrStart(sessions[i]) >= now - n * DayMs
                /\ selectedTags = {} \/ TagSet(sessions[i]) \cap selectedTags # {}

\* With the selection {"math"}, a session tagged "hist" is excluded and one
\* tagged "math" and "review" is included, both within the range.
C20_Witness ==
    /\ selectedTags = {"math"}
    /\ filterRange = "year"
    /\ \E i, j \in 1..Len(sessions) :
          /\ sessions[i].tags = <<"hist">> /\ ~InFiltered(sessions[i])
          /\ sessions[j].tags = <<"math", "review">> /\ InFiltered(sessions[j])


---------------------------------------------------------------------------
\* Claims about the statistics, checked under SpecDays.

\* The day buckets that hold a non-zero number of seconds.
NonZeroDays == {k \in DOMAIN countsByDay : countsByDay[k] # 0}

\* C21: daysStudied equals the number of day buckets whose value is
\* non-zero, or 1 when there is no such bucket; a day whose only sessions
\* each round to 0 seconds is not counted as a study day.
C21_DaysStudied ==
    stats.daysStudied = IF NonZeroDays = {} THEN 1 ELSE Cardinality(NonZeroDays)

\* The durations of the filtered sessions, added up in clock units.
RECURSIVE DurationSum(_)
DurationSum(n) ==
    IF n = 0 THEN 0 ELSE filteredSessions[n].durationMs + DurationSum(n - 1)

\* C22: for every filtered session set, the reported total seconds equals
\* the sum of all day-bucket values and equals the sum of the filtered
\* sessions' durations in seconds (the whole seconds of that sum).
C22_TotalIsBucketSum ==
    /\ stats.total = BucketSum
    /\ stats.total * SecMs <= DurationSum(Len(filteredSessions))
    /\ DurationSum(Len(filteredSessions)) < (stats.total + 1) * SecMs


---------------------------------------------------------------------------
\* Claims about the display tick, checked under Spec.

\* C28: the periodic display tick changes nothing but its own counter: it
\* leaves isRunning, startAt, elapsedOffset and the session collection
\* unchanged, and whether or not a tick fires between two stopwatch
\* commands, the stopwatch state and the draft stop() returns are the same.
C28_TickIsCosmetic ==
    [][last'.op = "displayTick" =>
          /\ tick' = tick + 1
          /\ UNCHANGED <<isRunning, startAt, elapsedOffset, sessions, showConfirm>>
          /\ stopResult' = stopResult
          /\ currentElapsed' = currentElapsed]_vars

\* A tick fired while the stopwatch was running with time on it and a
\* session in the collection.
C28_Witness ==
    /\ last.op = "displayTick"
    /\ tick = 1
    /\ isRunning
    /\ stopResult # NoObj
    /\ Len(sessions) >= 1


---------------------------------------------------------------------------
\* Claims about the day key, checked under SpecDays.

\* C29: the day key of a timestamp is the year-month-day of the local
\* calendar day containing it, for every time-zone offset; two timestamps
\* get the same key iff they fall on the same local calendar day.  The
\* timestamps are the start and the end of each loaded session.
C29_DayKeyIsLocalDay ==
    \A i \in 1..Len(sessions) :
        LET sa == ToNumber(sessions[i].startAt)
            ea == ToNumber(sessions[i].endAt)
        IN  /\ startOfDayISO(sa) = LocalDay(sa)
            /\ startOfDayISO(ea) = LocalDay(ea)
            /\ (startOfDayISO(sa) = startOfDayISO(ea)) <=> (LocalDay(sa) = LocalDay(ea))


---------------------------------------------------------------------------
\* Claims about the colour tiers, checked under SpecColor.

\* The 10 tiers, from no activity upward.
Tiers == <<"bg-gray-700", "bg-green-950", "bg-green-900", "bg-green-800", "bg-green-700",
           "bg-green-600", "bg-green-500", "bg-green-400", "bg-green-300", "bg-green-200">>

TierOf(className) == CHOOSE k \in DOMAIN Tiers : Tiers[k] = className

\* C30: the colour-tier function is monotonic non-decreasing in seconds over
\* its 10 ordered tiers, and returns the lowest (no-activity) tier for 0 and
\* for every negative input.
C30_TiersMonotonic ==
    last.op = "colorForCount" =>
        LET s == last.ret[1].seconds
            c == last.ret[1].className
        IN  /\ c[1] \in { Tiers[k] : k \in DOMAIN Tiers }
            /\ s[1] <= s[2] => TierOf(c[1]) <= TierOf(c[2])
            /\ s[1] <= 0 => c[1] = Tiers[1]

\* A tile below the top threshold and a tile at it were coloured: the two
\* highest tiers.
C30_Witness ==
    /\ last.op = "colorForCount"
    /\ last.ret[1].seconds = <<DEFAULT_THRESHOLDS[9] - 1, DEFAULT_THRESHOLDS[9]>>
    /\ last.ret[1].className = <<Tiers[9], Tiers[10]>>

---------------------------------------------------------------------------
\* Claims about the store, checked under SpecSync and SpecStore.

\* Two sequences of records with the same records.
SameRecords(a, b) ==
    /\ Len(a) = Len(b)
    /\ { a[i] : i \in 1..Len(a) } = { b[i] : i \in 1..Len(b) }

\* The load has settled and no call of saveSessions is pending.
Quiet == calls = <<>> /\ loadPc \in {"resolved", "rejected"} /\ loaded

\* C23: after any mutation of the in-memory collection a save of the full
\* current collection is issued, and if saves succeed and no further
\* mutation occurs the persisted store eventually equals the in-memory
\* collection, including when the collection has become empty.  Under
\* SpecSync every save succeeds, so once nothing is pending the store holds
\* the records of the collection.
C23_StoreMirrorsMemory ==
    Quiet => SameRecords(db, StoredSeq(sessions))

\* C24: a saveSessions(records) call replaces the persisted set atomically:
\* when it settles the store holds exactly records (on success) or exactly
\* its previous content (on failure), and with two overlapping save calls the
\* store never ends as a mixture of the two record sets.  The previous
\* content is what the store held when the call's transaction began.
C24_SaveIsAtomic ==
    /\ last.op = "saved" => db = last.ret[1].records
    /\ last.op = "saveFailed" => db = last.ret[1].before

\* A save of a session has settled while the next call, issued before it
\* settled, is waiting.
C24_Witness ==
    /\ last.op = "saved"
    /\ last.ret[1].records # <<>>
    /\ db = last.ret[1].records
    /\ calls # <<>>

\* C25: a failed save leaves the in-memory collection exactly as it was (no
\* rollback) and is not retried; the next successful save makes the
\* persisted store equal to the then-current in-memory collection.  The
\* failed call leaves the pending calls and none is added; every change of
\* the collection issues a save of the whole new collection, and when a
\* save of the current collection succeeds the store holds the collection.
C25_FailedSaveStep ==
    /\ last'.op = "saveFailed" =>
          /\ sessions' = sessions
          /\ Len(calls') = Len(calls) - 1
          /\ \A k \in 1..Len(calls') : \E j \in 1..Len(calls) : calls'[k] = calls[j]
    /\ sessions' # sessions =>
          /\ calls' # <<>>
          /\ calls'[Len(calls')] = SaveCall(StoredSeq(sessions'), "effect")
    /\ (last'.op = "saved" /\ last'.ret[1].records = StoredSeq(sessions')) =>
          db' = StoredSeq(sessions')

C26_LoadOnceStep ==
    /\ loadPc' = "getAll" => (loadPc = "getAll" \/ last'.op = "restart")
    /\ last'.op \in {"getAll", "loadFailed"} => (loadPc = "getAll" /\ loadPc' # "getAll")
    /\ last'.op = "load" => (~loaded /\ loaded' /\ loadPc = "resolved" /\ loadPc' = "resolved")
    /\ last'.op = "loadFailed" => (sessions' = sessions /\ loaded')
    /\ (last'.op = "load" /\ stored = <<>>) => sessions' = sessions
    /\ (last'.op \in {"load", "loadFailed"} /\ nextId = 1 /\ ~last'.ok) => sessions' = <<>>

C26_LoadOnce == [][C26_LoadOnceStep]_vars

\* The load has failed on a store that holds a record: the collection is
\* empty and no load is pending.
C26_Witness ==
    /\ last.op = "loadFailed"
    /\ loadPc = "rejected"
    /\ loaded
    /\ sessions = <<>>
    /\ db = <<AppRecord>>

\* C27: the legacy migration happens at most once per environment: it runs
\* only when the primary store is empty and the legacy entry exists, it
\* writes the legacy records to the primary store and removes the legacy
\* entry, and in no later execution of loadSessions does it run again.  A
\* migration that has written its records leaves no entry, and without an
\* entry none is started, in this visit or after a restart.
C27_MigrationOnceStep ==
    /\ (last'.op = "getAll" /\ loadPc' = "migrate") =>
          /\ db = <<>>
          /\ legacyEntry # NoObj
          /\ calls' = Append(calls, SaveCall(legacyEntry[1].items, "migration"))
    /\ (last'.op = "saved" /\ last'.ret[1].by = "migration") =>
          /\ legacyEntry # NoObj
          /\ db' = legacyEntry[1].items
          /\ legacyEntry' = NoObj
    /\ legacyEntry = NoObj =>
          /\ legacyEntry' = NoObj
          /\ loadPc' # "migrate"
          /\ \A k \in 1..Len(calls') : calls'[k].by # "migration"

C27_MigrationOnce == [][C27_MigrationOnceStep]_vars

\* The migration has written the legacy record and removed the entry.
C27_Witness ==
    /\ last.op = "saved"
    /\ last.ret[1].by = "migration"
    /\ db = <<LegacyRecord>>
    /\ legacyEntry = NoObj
    /\ loadPc = "resolved"

---------------------------------------------------------------------------
\* Claims about the heatmap's day axis, checked under SpecHeat.

\* C31: the heatmap day axis consists of 365 + weekday(today) consecutive
\* local days ending today, so for every weekday of today its first day is a
\* Sunday (the first grid row), and a day with no bucket entry shows 0
\* seconds and the no-activity tier.
C31_DayAxis ==
    last.op = "heatmap" =>
        LET r == last.ret[1]
            n == Len(r.dayList)
            today == ZoneDay(r.zone, now)
        IN  /\ n = HEATMAP_YEAR + getDay(r.zone, now)
            /\ \A k \in 1..n : ZoneDay(r.zone, r.dayList[k]) = today - (n - k)
            /\ getDay(r.zone, r.dayList[1]) = 0
            /\ \A k \in 1..n :
                  r.key[k] \notin DOMAIN countsByDay =>
                      (r.seconds[k] = 0 /\ r.className[k] = "bg-gray-700")

---------------------------------------------------------------------------
\* Claims about the edits and deletes of the list, checked under SpecEdit.

\* C32: a successful edit changes only the session whose id is the editing
\* id: that session keeps its id, every other session is unchanged, and the
\* number and order of sessions in the collection are unchanged.
C32_EditStep ==
    (last'.op = "saveEdit" /\ last'.ok) =>
        /\ Len(sessions') = Len(sessions)
        /\ \A i \in 1..Len(sessions) :
              /\ sessions'[i].id = sessions[i].id
              /\ sessions[i].id # editingId => sessions'[i] = sessions[i]

C32_EditChangesOne == [][C32_EditStep]_vars

\* The older of two sessions was edited: its start is the minute 0, which
\* no stopwatch run gives, and the newer one is in front of it.
C32_Witness ==
    /\ last.op = "saveEdit"
    /\ last.ok
    /\ Len(sessions) = 2
    /\ last.editingId = sessions[2].id
    /\ sessions[2].startAt = 0
    /\ sessions[1].startAt > 0

\* C33: a confirmed deleteSession(id) removes exactly the sessions with that
\* id from the in-memory collection and leaves all other sessions unchanged
\* and in the same relative order; a declined confirmation leaves the
\* collection unchanged; the deletion then reaches the persisted store.
\* Checked under SpecStore: the delete issues the save of the collection
\* without the session, and when that save succeeds the store holds it.
C33_DeleteStep ==
    /\ last'.op = "deleteSession" =>
          IF last'.ok
            THEN /\ \E i \in 1..Len(sessions) :
                       /\ sessions' = RemoveAt(sessions, i)
                       /\ \A k \in 1..Len(sessions') : sessions'[k].id # sessions[i].id
                 /\ calls' = Append(calls, SaveCall(StoredSeq(sessions'), "effect"))
            ELSE /\ sessions' = sessions
                 /\ calls' = calls
    /\ (last'.op = "saved" /\ last'.ret[1].records = StoredSeq(sessions')) =>
          SameRecords(db', StoredSeq(sessions'))

---------------------------------------------------------------------------
\* Claims about the startup, checked under SpecStartup.

\* What the store holds for a page opened now: the records as they were
\* before a transaction that has not committed.
Committed ==
    IF calls # <<>> /\ calls[1].pc = "add" THEN calls[1].before ELSE db

\* C34: if the primary store holds sessions when the app starts and the
\* user deletes nothing, then under every interleaving of the startup load
\* with the save of the initial empty in-memory collection, those sessions
\* are in the in-memory collection once the load settles and the persisted
\* store is never left empty.
C34_StartupKeepsStore ==
    /\ loaded => \E i \in 1..Len(sessions) : sessions[i].id = StoredId
    /\ Committed # <<>>

\* C35: a session completed by the stopwatch before the asynchronous
\* startup load settles is still in the in-memory collection (and reaches
\* the persisted store) after the load settles with a non-empty result.
\* Under SpecStartup the store is not empty, the completed session is the
\* one with the first id Math.random gave, and nothing is deleted.
C35_EarlySessionKept ==
    (loaded /\ nextId > 1) =>
        /\ \E i \in 1..Len(sessions) : sessions[i].id = 1
        /\ Quiet => \E i \in 1..Len(db) : db[i].id = 1

---------------------------------------------------------------------------
\* Claims about the migration's failures, checked under SpecStore.

\* C36: during migration the legacy entry is removed only after the write of
\* the legacy records to the primary store has succeeded; if parsing or that
\* write fails, the legacy entry is kept and loadSessions still returns (the
\* empty primary result) instead of failing.
C36_MigrationFailureStep ==
    /\ (legacyEntry # NoObj /\ legacyEntry' = NoObj) =>
          /\ last'.op = "saved"
          /\ last'.ret[1].by = "migration"
          /\ db' = legacyEntry[1].items
    /\ (last'.op = "saveFailed" /\ last'.ret[1].by = "migration") =>
          /\ legacyEntry' = legacyEntry
          /\ loadPc' = "resolved"
          /\ stored' = <<>>
    /\ (last'.op = "getAll" /\ db = <<>> /\ legacyEntry = Some(BadJson)) =>
          /\ legacyEntry' = legacyEntry
          /\ loadPc' = "resolved"
          /\ stored' = <<>>

C36_MigrationFailure == [][C36_MigrationFailureStep]_vars

\* The migration's write has failed: the entry is there, the store is
\* empty and loadSessions has returned the empty result.
C36_Witness ==
    /\ last.op = "saveFailed"
    /\ last.ret[1].by = "migration"
    /\ legacyEntry = Some(JsonOf(<<LegacyRecord>>))
    /\ db = <<>>
    /\ loadPc = "resolved"
    /\ stored = <<>>

---------------------------------------------------------------------------
\* Claims about the tag selection, checked under SpecTags.

\* C37: in every reachable state the selected tag set is a subset of the set
\* of tags present in the session collection: after an edit or delete
\* removes the last session carrying a selected tag, that tag is no longer
\* selected (so a selection can always be cleared from the tag buttons
\* offered).
C37_SelectionOffered == selectedTags \subseteq allTags

\* C38: after the load the collection stays ordered by endAt descending (most
\* recent first) through stopwatch-created sessions, successful edits and
\* deletes: each element's endAt is >= the next one's.
C38_StaysSorted ==
    loaded =>
        \A i \in 1..(Len(sessions) - 1) : sessions[i].endAt >= sessions[i + 1].endAt

\* C39: under a non-decreasing clock and for any number of pauses, the
\* interval of a stopwatch-created session lies inside the run that produced
\* it: its startAt is not earlier than the instant the run was started at, and
\* its endAt is the instant of the stop.
C39_IntervalInsideRun ==
    (last.op = "confirmSave" /\ last.ok /\ last.mono) =>
        /\ last.runStart # NULL
        /\ sessions[1].startAt >= last.runStart
        /\ sessions[1].endAt = last.at
        /\ sessions[1].startAt <= sessions[1].endAt

\* A run with a pause of positive length in it, running again when it was
\* saved: the session starts after the run did and ends at the stop.
C39_Witness ==
    /\ last.op = "confirmSave" /\ last.ok /\ last.mono
    /\ last.isRunning
    /\ last.elapsedOffset > 0
    /\ last.startAt < last.at
    /\ sessions[1].startAt > last.runStart
    /\ sessions[1].endAt = last.at

\* The walk of the one session of the collection: its start and end as
\* countsByDay takes them, the local days it touches, and its iterations,
\* followed for one more than that number of days.
WalkedStart == ToNumber(WalkStart(sessions[1]))
WalkedEnd == ToNumber(WalkEnd(sessions[1]))
DaysTouched == LocalDay(WalkedEnd) - LocalDay(WalkedStart) + 1
WalkOfSession == WalkSegments(WalkedStart, WalkedEnd, DaysTouched + 1)
IsWalked == OneFiltered /\ ~(Falsy(WalkedStart) \/ Falsy(WalkedEnd) \/ Leq(WalkedEnd, WalkedStart))

\* C40: the day-decomposition walk of a session terminates: each iteration
\* strictly advances the cursor (segEnd > cursor), the cursor never exceeds
\* the session end and reaches it, and the number of iterations is at most
\* the number of local calendar days the session touches.  The buckets of
\* countsByDay are the days of the cursors.
C40_WalkTerminates ==
    IsWalked =>
        LET segs == WalkOfSession
        IN  /\ \A k \in 1..Len(segs) :
                  /\ segs[k].segEnd > segs[k].cursor
                  /\ segs[k].segEnd <= WalkedEnd
            /\ Len(segs) >= 1
            /\ Len(segs) <= DaysTouched
            /\ segs[Len(segs)].segEnd = WalkedEnd
            /\ DOMAIN countsByDay = { startOfDayISO(segs[k].cursor) : k \in 1..Len(segs) }

\* A session that starts on one local day and ends two days later, in a zone
\* away from UTC, was loaded and walked in three iterations, the last one
\* cut at the session end.
C40_Witness ==
    /\ IsWalked
    /\ tz # 0
    /\ DaysTouched = 3
    /\ Len(WalkOfSession) = 3
    /\ WalkOfSession[1].segEnd = NextMidnight(WalkedStart)
    /\ WalkOfSession[3].segEnd = WalkedEnd
    /\ WalkedEnd < NextMidnight(WalkOfSession[3].cursor)

====
